---------------------------- MODULE Spec2Model ----------------------------
(***************************************************************************)
(* A model of the PM2.5 service (pm25_service): the file catalog           *)
(* (service/indexer.py), the country mask (service/country_mask.py), the   *)
(* threshold map (service/threshold_map.py), the windowed ensemble field   *)
(* (service/window_field.py) and the region shock (service/shock.py).      *)
(*                                                                         *)
(* Text is modelled as sequences of one-character strings, so that the     *)
(* key grammar, base names and year prefixes are computed, not assumed.    *)
(* Numbers are exact rationals with NaN and signed infinity.               *)
(***************************************************************************)
EXTENDS Integers, Sequences, FiniteSets, TLC

VARIABLES
    storage,      \* object storage: the set of keys present in the bucket
    indexFile,    \* /app/cache/pm25_index.json
    dlCache,      \* /app/cache/dl_<basename>: which object's bytes each holds
    maskFile,     \* /app/cache/country_mask_1deg.nc
    geojsonFile,  \* /app/cache/ne_countries_lowres.geojson
    thrFiles,     \* /app/cache/thrmap_<basis>_<scenario>_q<q>.nc
    last,         \* the last request and what it returned or raised
    fn,           \* a pure function's inputs and result
    writer,       \* the reindex request that is being served, file open or not
    reqs          \* requests served side by side: where each one stands

vars == <<storage, indexFile, dlCache, maskFile, geojsonFile, thrFiles, last, fn,
          writer, reqs>>

-----------------------------------------------------------------------------
(* Text helpers *)

Digits == <<"0", "1", "2", "3", "4", "5", "6", "7", "8", "9">>

IsDigit(c) == \E i \in 1..Len(Digits) : Digits[i] = c

DigitVal(c) == (CHOOSE i \in 1..Len(Digits) : Digits[i] = c) - 1

\* int(s) for a sequence of digit characters
RECURSIVE IntOf(_)
IntOf(s) ==
    IF s = <<>> THEN 0
    ELSE 10 * IntOf(SubSeq(s, 1, Len(s) - 1)) + DigitVal(s[Len(s)])

\* str.split(sep): the pieces between the separators (always at least one)
RECURSIVE SplitOn(_, _)
SplitOn(s, sep) ==
    IF \A i \in 1..Len(s) : s[i] # sep THEN <<s>>
    ELSE LET i == CHOOSE j \in 1..Len(s) :
                      s[j] = sep /\ \A h \in 1..(j - 1) : s[h] # sep
         IN  <<SubSeq(s, 1, i - 1)>> \o SplitOn(SubSeq(s, i + 1, Len(s)), sep)

\* str.startswith / str.endswith
StartsWith(s, p) == Len(p) <= Len(s) /\ SubSeq(s, 1, Len(p)) = p

EndsWith(s, p) == Len(p) <= Len(s) /\ SubSeq(s, Len(s) - Len(p) + 1, Len(s)) = p

\* key.split("/")[-1]  and  os.path.basename(key)
BaseName(key) == LET parts == SplitOn(key, "/") IN parts[Len(parts)]

DotNc == <<".", "n", "c">>


-----------------------------------------------------------------------------
(* The catalog: service/indexer.py *)

\* _KEY_RE: six tokens of [^_]+ joined by "_", then \d{6}-\d{6}\.nc, anchored at
\* both ends.  No token and no part of the tail can hold "_", so the name matches
\* exactly when splitting it on "_" gives seven pieces, the first six non-empty and
\* the seventh of the form dddddd-dddddd.nc; "$" also matches before a newline
\* that ends the name.
TailMatches(t) ==
    /\ Len(t) = 16 \/ (Len(t) = 17 /\ t[17] = "\n")
    /\ \A i \in 1..6 : IsDigit(t[i])
    /\ t[7] = "-"
    /\ \A i \in 8..13 : IsDigit(t[i])
    /\ SubSeq(t, 14, 16) = DotNc

KeyReMatches(name) ==
    LET parts == SplitOn(name, "_")
    IN  /\ Len(parts) = 7
        /\ \A i \in 1..6 : parts[i] # <<>>
        /\ TailMatches(parts[7])

NoRecord == [ok |-> FALSE, var |-> <<>>, freq |-> <<>>, model |-> <<>>,
             scenario |-> <<>>, run |-> <<>>, grid |-> <<>>,
             start |-> <<>>, end |-> <<>>, key |-> <<>>]

\* a variant of _parse_key: the pattern is searched, not anchored at the start
ParseKeyUnanchored(key) ==
    LET name  == BaseName(key)
        parts == SplitOn(name, "_")
        n     == Len(parts)
    IN  IF n >= 7 /\ (\A i \in (n - 6)..(n - 1) : parts[i] # <<>>) /\ TailMatches(parts[n])
        THEN [ok |-> TRUE, var |-> parts[n - 6], freq |-> parts[n - 5],
              model |-> parts[n - 4], scenario |-> parts[n - 3], run |-> parts[n - 2],
              grid |-> parts[n - 1], start |-> SubSeq(parts[n], 1, 6),
              end |-> SubSeq(parts[n], 8, 13), key |-> key]
        ELSE NoRecord

\* a variant of _parse_key that keeps the years of the two dates only
ParseKeyYears(key) ==
    LET name  == BaseName(key)
        parts == SplitOn(name, "_")
    IN  IF KeyReMatches(name)
        THEN [ok |-> TRUE, var |-> parts[1], freq |-> parts[2], model |-> parts[3],
              scenario |-> parts[4], run |-> parts[5], grid |-> parts[6],
              start |-> SubSeq(parts[7], 1, 4), end |-> SubSeq(parts[7], 8, 11),
              key |-> key]
        ELSE NoRecord

\* _parse_key: None (ok = FALSE) or the groups of the match plus the key
ParseKey(key) ==
    LET name  == BaseName(key)
        parts == SplitOn(name, "_")
    IN  IF KeyReMatches(name)
        THEN [ok |-> TRUE, var |-> parts[1], freq |-> parts[2], model |-> parts[3],
              scenario |-> parts[4], run |-> parts[5], grid |-> parts[6],
              start |-> SubSeq(parts[7], 1, 6), end |-> SubSeq(parts[7], 8, 13),
              key |-> key]
        ELSE NoRecord

\* the object names of the archive

U == <<"_">>

Ssp245 == <<"s", "s", "p", "2", "4", "5">>
Ssp585 == <<"s", "s", "p", "5", "8", "5">>

Var == <<"m", "m", "r", "p", "m", "2", "p", "5">>
Freq == <<"A", "E", "R", "m", "o", "n">>
Run1 == <<"r", "1">>
Grid == <<"g", "n">>

Span(a, b) == a \o <<"-">> \o b

D201501 == <<"2", "0", "1", "5", "0", "1">>
D201512 == <<"2", "0", "1", "5", "1", "2">>
D201601 == <<"2", "0", "1", "6", "0", "1">>
D201712 == <<"2", "0", "1", "7", "1", "2">>

FileName(model, scenario, run, start, end) ==
    Var \o U \o Freq \o U \o model \o U \o scenario \o U \o run \o U \o Grid
        \o U \o Span(start, end) \o DotNc

KeyA1 == FileName(<<"A">>, Ssp245, Run1, D201501, D201512)
KeyA2 == FileName(<<"A">>, Ssp245, Run1, D201601, D201712)
KeyB  == FileName(<<"B">>, Ssp245, Run1, D201501, D201712)
KeyD  == FileName(<<"D">>, Ssp245, Run1, D201501, D201512)
\* the same file name as KeyA1 under a folder
KeyPA1 == <<"p", "/">> \o KeyA1
\* a start later than the end
KeyR  == FileName(<<"E">>, Ssp585, Run1, D201712, D201501)
\* names outside the grammar: a token missing, a token too many, four-digit
\* dates, another extension
KeyM5 == Var \o U \o Freq \o U \o <<"B">> \o U \o Ssp245 \o U \o Run1 \o U
             \o Span(D201501, D201712) \o DotNc
KeyM7 == <<"x">> \o U \o KeyA1
KeyMd == Var \o U \o Freq \o U \o <<"B">> \o U \o Ssp245 \o U \o Run1 \o U \o Grid \o U
             \o Span(<<"2", "0", "1", "5">>, <<"2", "0", "1", "7">>) \o DotNc
KeyTxt == SubSeq(KeyB, 1, Len(KeyB) - 3) \o <<".", "t", "x", "t">>

\* every key, in the order a listing returns them
KeySeq == <<KeyA1, KeyA2, KeyB, KeyM5, KeyMd, KeyTxt, KeyD, KeyR, KeyPA1, KeyM7>>

Keys == {KeySeq[i] : i \in 1..Len(KeySeq)}

Prefixes == {<<>>, <<"p", "/">>, Var}

\* client.list_objects(bucket, prefix=prefix, recursive=True)
ListObjects(objects, prefix) ==
    SelectSeq(KeySeq, LAMBDA k : k \in objects /\ StartsWith(k, prefix))

\* _parse_key of every key
Parsed == [k \in Keys |-> ParseKey(k)]

\* the most objects the bucket holds at once while the listing is varied
MaxObjects == 3

NoIndex == [exists |-> FALSE, files |-> <<>>, count |-> 0]

\* a variant of the item loop: the items pile up on those of the previous scan
IndexItemsAppended(objects, prefix) ==
    LET listing == SelectSeq(ListObjects(objects, prefix), LAMBDA k : EndsWith(k, DotNc))
        parsed  == [i \in 1..Len(listing) |-> Parsed[listing[i]]]
    IN  indexFile.files \o SelectSeq(parsed, LAMBDA r : r.ok)

\* index_pm25_data, lines 25-32: the items of one scan, in listing order
IndexItems(objects, prefix) ==
    LET listing == SelectSeq(ListObjects(objects, prefix), LAMBDA k : EndsWith(k, DotNc))
        parsed  == [i \in 1..Len(listing) |-> Parsed[listing[i]]]
    IN  SelectSeq(parsed, LAMBDA r : r.ok)

\* index_pm25_data: scan, write {"files": items, "count": len(items)}, return the count
Reindex(prefix) ==
    LET items == IndexItems(storage, prefix)
    IN  /\ indexFile' = [exists |-> TRUE, files |-> items, count |-> Len(items)]
        /\ last' = [op |-> "reindex", prefix |-> prefix, count |-> Len(items),
                    before |-> indexFile,
                    repeat |-> (last.op = "reindex" /\ last.prefix = prefix)]
        /\ UNCHANGED <<storage, dlCache, maskFile, geojsonFile, thrFiles, fn, writer, reqs>>

\* the archive changes: an object is uploaded or removed
PutObject(k) ==
    /\ k \notin storage
    /\ Cardinality(storage) < MaxObjects
    /\ storage' = storage \cup {k}
    /\ last' = [op |-> "put"]
    /\ UNCHANGED <<indexFile, dlCache, maskFile, geojsonFile, thrFiles, fn, writer, reqs>>

DeleteObject(k) ==
    /\ k \in storage
    /\ storage' = storage \ {k}
    /\ last' = [op |-> "delete"]
    /\ UNCHANGED <<indexFile, dlCache, maskFile, geojsonFile, thrFiles, fn, writer, reqs>>

-----------------------------------------------------------------------------
(* Numbers: exact rationals n/d in lowest terms, NaN, and signed infinity *)

Abs(a) == IF a < 0 THEN -a ELSE a

RECURSIVE GCD(_, _)
GCD(a, b) == IF b = 0 THEN a ELSE GCD(b, a % b)

NaN == [k |-> "nan", n |-> 0, d |-> 1]

Inf(sign) == [k |-> "inf", n |-> sign, d |-> 1]

Fin(n, d) ==
    LET g == GCD(Abs(n), Abs(d))
        s == IF d < 0 THEN -1 ELSE 1
    IN  [k |-> "fin", n |-> (s * n) \div g, d |-> Abs(d) \div g]

R(n) == Fin(n, 1)

IsNaN(x) == x.k = "nan"

\* np.isfinite
IsFinite(x) == x.k = "fin"

Sign(x) == IF x.n > 0 THEN 1 ELSE IF x.n < 0 THEN -1 ELSE 0

Neg(x) == [x EXCEPT !.n = -x.n]

Add(x, y) ==
    IF IsNaN(x) \/ IsNaN(y) THEN NaN
    ELSE IF x.k = "inf" /\ y.k = "inf" THEN (IF x.n = y.n THEN x ELSE NaN)
    ELSE IF x.k = "inf" THEN x
    ELSE IF y.k = "inf" THEN y
    ELSE Fin(x.n * y.d + y.n * x.d, x.d * y.d)

Sub(x, y) == Add(x, Neg(y))

Mul(x, y) ==
    IF IsNaN(x) \/ IsNaN(y) THEN NaN
    ELSE IF x.k = "inf" \/ y.k = "inf"
         THEN (IF Sign(x) * Sign(y) = 0 THEN NaN ELSE Inf(Sign(x) * Sign(y)))
    ELSE Fin(x.n * y.n, x.d * y.d)

\* floating-point division (a zero divisor gives an infinity or NaN)
Div(x, y) ==
    IF IsNaN(x) \/ IsNaN(y) THEN NaN
    ELSE IF y.k = "inf" THEN (IF x.k = "inf" THEN NaN ELSE R(0))
    ELSE IF y.n = 0 THEN (IF Sign(x) = 0 THEN NaN ELSE Inf(Sign(x)))
    ELSE IF x.k = "inf" THEN Inf(Sign(x) * Sign(y))
    ELSE Fin(x.n * y.d, x.d * y.n)

\* x < y and x <= y for finite x, y
Less(x, y) == x.n * y.d < y.n * x.d

Leq(x, y) == x.n * y.d <= y.n * x.d

RECURSIVE SumSeq(_)
SumSeq(s) == IF s = <<>> THEN R(0) ELSE Add(s[1], SumSeq(Tail(s)))

NotNaN(s) == SelectSeq(s, LAMBDA x : ~IsNaN(x))

\* np.nansum
NanSum(s) == SumSeq(NotNaN(s))

\* mean(skipna=True): NaN when nothing is left
NanMean(s) ==
    LET v == NotNaN(s)
    IN  IF v = <<>> THEN NaN ELSE Div(SumSeq(v), R(Len(v)))

\* the i-th smallest (i in 1..Len(v)) of a sequence of finite values
Kth(v, i) ==
    LET j == CHOOSE h \in 1..Len(v) :
                 /\ Cardinality({g \in 1..Len(v) : Less(v[g], v[h])}) < i
                 /\ i <= Cardinality({g \in 1..Len(v) : Leq(v[g], v[h])})
    IN  v[j]

\* a median that takes the upper of the two middle values of an even count
NanMedianUpper(s) ==
    LET v == NotNaN(s)
    IN  IF v = <<>> THEN NaN ELSE Kth(v, Len(v) \div 2 + 1)

\* median(skipna=True)
NanMedian(s) ==
    LET v == NotNaN(s)
        n == Len(v)
    IN  IF n = 0 THEN NaN
        ELSE IF n % 2 = 1 THEN Kth(v, (n + 1) \div 2)
        ELSE Div(Add(Kth(v, n \div 2), Kth(v, n \div 2 + 1)), R(2))

\* a quantile that takes the higher neighbour instead of interpolating
NanQuantileHigher(s, q) ==
    LET v == NotNaN(s)
        h == (Len(v) - 1) * q
    IN  IF v = <<>> THEN NaN
        ELSE IF h % 1000 = 0 THEN Kth(v, h \div 1000 + 1)
        ELSE Kth(v, h \div 1000 + 2)

\* quantile(q, skipna=True) with linear interpolation; q is given in thousandths
NanQuantile(s, q) ==
    LET v  == NotNaN(s)
        n  == Len(v)
        h  == (n - 1) * q              \* the position, in thousandths, from 0
        lo == h \div 1000
        fr == Fin(h % 1000, 1000)
    IN  IF n = 0 THEN NaN
        ELSE IF h % 1000 = 0 THEN Kth(v, lo + 1)
        ELSE Add(Kth(v, lo + 1), Mul(fr, Sub(Kth(v, lo + 2), Kth(v, lo + 1))))

-----------------------------------------------------------------------------
(* The canonical grid and the fields on it *)

\* the longitudes of the model grid (the service's grid has 360)
NLon == 2

\* cos(latitude) of the model grid's latitude rows: a row at 0 degrees and a row
\* at 60 degrees (the service's grid has 180 rows, every cosine positive)
CosLat == <<R(1), Fin(1, 2)>>

\* Coordinates are counted in millionths of a degree.
\* target_grid(): the latitudes of the rows (the model's two rows lie at 0 and at
\* 60 degrees, see CosLat) and the longitudes of the columns, 0.5, 1.5, ...
TargetLat == <<0, 60000000>>

TargetLon == [j \in 1..NLon |-> (2 * j - 1) * 500000]

\* _area_weights(lat): np.cos(np.deg2rad(lat)) of an array of latitudes, each of
\* them 0 or 60 degrees
AreaWeights(lat) ==
    [i \in 1..Len(lat) |-> IF lat[i] = 0 THEN R(1) ELSE Fin(1, 2)]

Lats == 1..Len(CosLat)
Lons == 1..NLon
Cells == Lats \X Lons

\* the cells in raster order, for sums over a field
CellSeq == [i \in 1..(Len(CosLat) * NLon) |-> <<((i - 1) \div NLon) + 1, ((i - 1) % NLon) + 1>>]

AllNaN == [c \in Cells |-> NaN]

Const(v) == [c \in Cells |-> v]

\* np.isfinite(da.values).any()
AnyFinite(f) == \E c \in Cells : IsFinite(f[c])

\* a field given by its values at the three land cells, v0 elsewhere
Land(v11, v21, v12, v0) ==
    [c \in Cells |-> IF c = <<1, 1>> THEN v11
                     ELSE IF c = <<2, 1>> THEN v21
                     ELSE IF c = <<1, 2>> THEN v12 ELSE v0]

\* The content of each object of the archive: its time samples, each with the
\* calendar year of its time stamp.  Model A is split over two segments of unequal
\* length; model B's file is named for 2015-2017, misses a cell in 2015 and holds
\* no sample of 2017; model D's file holds no finite value.
ObjectData(key) ==
    IF key = KeyA1 \/ key = KeyPA1 THEN
        << [year |-> 2015, field |-> Land(R(8), R(9), R(0), R(2))] >>
    ELSE IF key = KeyA2 THEN
        << [year |-> 2016, field |-> Const(R(14))],
           [year |-> 2016, field |-> Const(R(16))],
           [year |-> 2017, field |-> Const(R(18))] >>
    ELSE IF key = KeyB THEN
        << [year |-> 2015, field |-> Land(R(10), NaN, R(0), R(2))],
           [year |-> 2016, field |-> Const(R(20))] >>
    ELSE IF key = KeyD THEN
        << [year |-> 2015, field |-> AllNaN] >>
    ELSE << >>

\* the objects the service's archive holds
Archive == {KeyA1, KeyA2, KeyB, KeyD, KeyM5, KeyTxt}

\* the values of the members at one cell, stacked along "member"
AtCell(fields, c) == [i \in 1..Len(fields) |-> fields[i][c]]

\* stack.mean(dim="member", skipna=True) and stack.median(dim="member", skipna=True)
MeanOverMembers(fields) == [c \in Cells |-> NanMean(AtCell(fields, c))]

MedianOverMembers(fields) == [c \in Cells |-> NanMedian(AtCell(fields, c))]

\* stack.quantile(quantile, dim="member", skipna=True)
QuantileOverMembers(fields, q) == [c \in Cells |-> NanQuantile(AtCell(fields, c), q)]

-----------------------------------------------------------------------------
(* Candidate selection: threshold_map.py, shock.py, window_field.py *)

UpperCase == <<"A", "B", "C", "D", "E", "F", "G", "H", "I", "J", "K", "L", "M",
               "N", "O", "P", "Q", "R", "S", "T", "U", "V", "W", "X", "Y", "Z">>
LowerCase == <<"a", "b", "c", "d", "e", "f", "g", "h", "i", "j", "k", "l", "m",
               "n", "o", "p", "q", "r", "s", "t", "u", "v", "w", "x", "y", "z">>

\* str.lower()
Lower(s) ==
    [i \in 1..Len(s) |->
        IF \E j \in 1..Len(UpperCase) : UpperCase[j] = s[i]
        THEN LowerCase[CHOOSE j \in 1..Len(UpperCase) : UpperCase[j] = s[i]]
        ELSE s[i]]

\* _is_scenario
IsScenario(meta, scenario) == Lower(meta.scenario) = Lower(scenario)

\* int(s[:4]) of a six-character YYYYMM
YearOf(s) == IntOf(SubSeq(s, 1, 4))

\* _covers_year
CoversYear(meta, year) ==
    IF Len(meta.start) # 6 \/ Len(meta.end) # 6 THEN FALSE
    ELSE YearOf(meta.start) <= year /\ year <= YearOf(meta.end)

\* a variant of the window test: the record's years must lie inside the window
CoversYearRangeInside(meta, y0, y1) ==
    IF Len(meta.start) # 6 \/ Len(meta.end) # 6 THEN FALSE
    ELSE y0 <= YearOf(meta.start) /\ YearOf(meta.end) <= y1

\* _covers_year_range and _covers_any
CoversYearRange(meta, y0, y1) ==
    IF Len(meta.start) # 6 \/ Len(meta.end) # 6 THEN FALSE
    ELSE ~(YearOf(meta.end) < y0 \/ YearOf(meta.start) > y1)

-----------------------------------------------------------------------------
(* The download cache and the time reductions *)

\* os.path.basename of every key
LocalOf == [k \in Keys |-> BaseName(k)]

LocalNames == {LocalOf[k] : k \in Keys}

\* no file at a local path
NoFile == << >>

\* _download_nc: the local path is dl_<basename(key)>; the object is fetched only
\* when no file is at that path, and fetching an object the bucket lacks raises
Download(cache, key) ==
    LET local == LocalOf[key]
    IN  IF cache[local] # NoFile THEN [ok |-> TRUE, cache |-> cache, path |-> local]
        ELSE IF key \in storage
             THEN [ok |-> TRUE, cache |-> [cache EXCEPT ![local] = key], path |-> local]
             ELSE [ok |-> FALSE, cache |-> cache, path |-> local]

\* [_fetch_nc(client, bucket, k) for k in seg_keys]: stops at the first failure
RECURSIVE DownloadAll(_, _)
DownloadAll(cache, keys) ==
    IF keys = << >> THEN [ok |-> TRUE, cache |-> cache, paths |-> << >>]
    ELSE LET one == Download(cache, keys[1])
         IN  IF ~one.ok THEN [ok |-> FALSE, cache |-> one.cache, paths |-> << >>]
             ELSE LET rest == DownloadAll(one.cache, Tail(keys))
                  IN  [ok |-> rest.ok, cache |-> rest.cache,
                       paths |-> IF rest.ok THEN <<one.path>> \o rest.paths ELSE << >>]

RECURSIVE Concat(_)
Concat(seqs) == IF seqs = << >> THEN << >> ELSE seqs[1] \o Concat(Tail(seqs))

\* the mean over time (skipna) of the samples, cell by cell
TimeMean(samples) ==
    [c \in Cells |-> NanMean([i \in 1..Len(samples) |-> samples[i].field[c]])]

Failed(msg) == [ok |-> FALSE, err |-> msg, field |-> AllNaN]

Done(f) == [ok |-> TRUE, err |-> "", field |-> f]

\* _window_mean_on_target_from_paths: the segments are opened as one dataset along
\* time (open_mfdataset, combine="by_coords", which refuses the same time axis
\* twice), the samples whose year is in [y0, y1] are kept and averaged
WindowMeanEitherOrder(cache, paths, y0, y1) ==
    LET contents == [i \in 1..Len(paths) |-> cache[paths[i]]]
        samples  == Concat([i \in 1..Len(paths) |-> ObjectData(contents[i])])
        lo       == IF y0 <= y1 THEN y0 ELSE y1
        hi       == IF y0 <= y1 THEN y1 ELSE y0
        sel      == SelectSeq(samples, LAMBDA x : x.year >= lo /\ x.year <= hi)
    IN  IF \E i, j \in 1..Len(paths) : i < j /\ contents[i] = contents[j]
        THEN Failed("cannot combine: time index not monotonic")
        ELSE IF sel = << >> THEN Failed("no samples in requested window")
        ELSE Done(TimeMean(sel))

WindowMeanOnTargetFromPaths(cache, paths, y0, y1) ==
    LET contents == [i \in 1..Len(paths) |-> cache[paths[i]]]
        samples  == Concat([i \in 1..Len(paths) |-> ObjectData(contents[i])])
        sel      == SelectSeq(samples, LAMBDA x : x.year >= y0 /\ x.year <= y1)
    IN  IF \E i, j \in 1..Len(paths) : i < j /\ contents[i] = contents[j]
        THEN Failed("cannot combine: time index not monotonic")
        ELSE IF sel = << >> THEN Failed("no samples in requested window")
        ELSE Done(TimeMean(sel))

\* _annual_mean_window_on_target: one file, the samples whose year is in [y0, y1]
AnnualMeanWindowOnTarget(cache, path, y0, y1) ==
    LET sel == SelectSeq(ObjectData(cache[path]), LAMBDA x : x.year >= y0 /\ x.year <= y1)
    IN  IF sel = << >> THEN Failed("no samples in window") ELSE Done(TimeMean(sel))

\* _annual_mean_2015_on_target: one file, the samples of 2015
AnnualMean2015OnTarget(cache, path) ==
    LET sel == SelectSeq(ObjectData(cache[path]), LAMBDA x : x.year = 2015)
    IN  IF sel = << >> THEN Failed("no samples with year==2015") ELSE Done(TimeMean(sel))

-----------------------------------------------------------------------------
(* The country mask: service/country_mask.py *)

\* A polygon feature: the two-letter code its properties resolve to ("" when none
\* does), whether it has polygon geometry, the grid cells whose centre the
\* polygon contains (geom.contains), and the western and eastern bound of the
\* geometry in degrees.
FeatureIn(iso2, geom, cells, minx, maxx) ==
    [iso2 |-> iso2, geom |-> geom, cells |-> cells, minx |-> minx, maxx |-> maxx]

\* a feature whose bounds are those of the model grid
Feature(iso2, geom, cells) == FeatureIn(iso2, geom, cells, 0, NLon)

\* _build_mask_from_geojson, lines 104-126: the columns that are tested for a
\* feature.  Bounds are wrapped to [0, 360) when the western one is negative or
\* the eastern one is at most 180; the columns within one degree of the bounds
\* are kept, those outside the gap when the wrapped bounds are in reverse order.
LonIndices(f) ==
    LET wrapped == f.minx < 0 \/ f.maxx <= 180
        minx    == IF wrapped THEN (f.minx + 360) % 360 ELSE f.minx
        maxx    == IF wrapped THEN (f.maxx + 360) % 360 ELSE f.maxx
    IN  {j \in Lons :
            IF minx <= maxx
            THEN TargetLon[j] >= (minx - 1) * 1000000 /\ TargetLon[j] <= (maxx + 1) * 1000000
            ELSE TargetLon[j] >= (minx - 1) * 1000000 \/ TargetLon[j] <= (maxx + 1) * 1000000}

\* the polygon collections: the default one (Natural Earth) and the one at a URL
PolygonSource(src) ==
    IF src = "default" THEN
        << Feature("FR", TRUE, {<<1, 1>>, <<2, 1>>}),
           Feature("", TRUE, {<<2, 2>>}),
           Feature("DE", TRUE, {<<1, 1>>, <<1, 2>>}),
           Feature("LU", TRUE, {}),
           Feature("MC", FALSE, {}) >>
    ELSE
        << Feature("DE", TRUE, {<<1, 1>>, <<1, 2>>}),
           Feature("FR", TRUE, {<<1, 1>>, <<2, 1>>}) >>

Sources == {"default", "urlA"}

NoGeojson == "absent"

\* position of a code in the lookup, 0 when it has none
CodeOf(lookup, iso2) ==
    IF \E i \in 1..Len(lookup) : lookup[i] = iso2
    THEN CHOOSE i \in 1..Len(lookup) : lookup[i] = iso2
    ELSE 0

\* _build_mask_from_geojson, the body of the loop over the features: a feature
\* without a code or without polygon geometry is skipped; a new code gets the
\* next index; a cell already assigned is left alone; a cell of the columns
\* tested whose centre the geometry contains gets the code
RasterizeFeature(f, code, lookup) ==
    IF f.iso2 = "" \/ ~f.geom THEN [code |-> code, lookup |-> lookup]
    ELSE LET lk  == IF CodeOf(lookup, f.iso2) = 0 THEN Append(lookup, f.iso2) ELSE lookup
             cid == CodeOf(lk, f.iso2)
         IN  [code |-> [c \in Cells |->
                          IF code[c] = 0 /\ c[2] \in LonIndices(f) /\ c \in f.cells
                          THEN cid ELSE code[c]],
              lookup |-> lk]

\* _build_mask_from_geojson, the loop over the features from the i-th on
RECURSIVE Rasterize(_, _, _, _)
Rasterize(feats, i, code, lookup) ==
    IF i > Len(feats) THEN [code |-> code, lookup |-> lookup]
    ELSE Rasterize(feats, i + 1, RasterizeFeature(feats[i], code, lookup).code,
                   RasterizeFeature(feats[i], code, lookup).lookup)

NoMask ==
    [exists |-> FALSE, code |-> [c \in Cells |-> 0], lookup |-> << >>,
     lat |-> TargetLat, lon |-> TargetLon]

\* _build_mask_from_geojson: the code raster and the code -> ISO2 lookup
BuildMaskFromGeojson(content) ==
    LET r == Rasterize(PolygonSource(content), 1, [c \in Cells |-> 0], << >>)
    IN  [exists |-> TRUE, code |-> r.code, lookup |-> r.lookup,
         lat |-> TargetLat, lon |-> TargetLon]

\* _download_if_needed(src_url, DEFAULT_GEOJSON_PATH): the content of the file at
\* the path afterwards
DownloadIfNeeded(src) == IF geojsonFile = NoGeojson THEN src ELSE geojsonFile

\* a test that never finds the mask
MaskReusedNever(overwrite) == FALSE

MaskReusedAlways(overwrite) == TRUE

\* ensure_country_mask, line 166: the mask is there and is not to be overwritten
MaskReused(overwrite) == maskFile.exists /\ ~overwrite

\* ensure_country_mask(mask_path, src, overwrite)
EnsureCountryMask(src, overwrite) ==
    IF MaskReused(overwrite)
    THEN /\ last' = [op |-> "ensure_mask", src |-> src, overwrite |-> overwrite,
                     created |-> FALSE, n_countries |-> Len(maskFile.lookup)]
         /\ UNCHANGED <<storage, indexFile, dlCache, maskFile, geojsonFile, thrFiles, fn, writer, reqs>>
    ELSE LET content == DownloadIfNeeded(src)
             built   == BuildMaskFromGeojson(content)
         IN  /\ geojsonFile' = content
             /\ maskFile' = built
             /\ last' = [op |-> "ensure_mask", src |-> src, overwrite |-> overwrite,
                         created |-> TRUE, n_countries |-> Len(built.lookup)]
             /\ UNCHANGED <<storage, indexFile, dlCache, thrFiles, fn, writer, reqs>>

-----------------------------------------------------------------------------
(* Aggregation over a country: shock.py and region_mask.py *)

Raised(msg) == [ok |-> FALSE, err |-> msg, value |-> NaN]

Value(v) == [ok |-> TRUE, err |-> "", value |-> v]

\* _country_weighted_mean: the code raster and the field are combined position
\* by position, the weight of a row is the cosine of the mask's latitude at that
\* position; the weights of every cell of the country are summed
\* (sw = nansum(w)), the products v * w are summed without the missing ones
CountryWeightedMean(field, mask, alpha2) ==
    LET cid == CodeOf(mask.lookup, alpha2)
        sel == {c \in Cells : mask.code[c] = cid}
        w   == [i \in 1..Len(CellSeq) |->
                   IF CellSeq[i] \in sel THEN AreaWeights(mask.lat)[CellSeq[i][1]]
                   ELSE R(0)]
        vw  == [i \in 1..Len(CellSeq) |->
                   IF CellSeq[i] \in sel THEN Mul(field[CellSeq[i]], w[i]) ELSE NaN]
        sw  == NanSum(w)
    IN  IF cid = 0 THEN Raised("Country not found in mask")
        ELSE IF sel = {} THEN Raised("No grid cells for country in mask")
        ELSE IF ~Less(R(0), sw) THEN Value(NaN)
        ELSE Value(Div(NanSum(vw), sw))

\* region_mask(alpha2) on a raster of ISO2 codes: the cells of the country
RegionMask(mask, alpha2) ==
    {c \in Cells : mask.code[c] # 0 /\ mask.lookup[mask.code[c]] = alpha2}

\* region_mask(alpha2), the end of it: a mask whose coordinate arrays equal those
\* of the grid is returned as it is; for any other, da.interp(...) is called on
\* the boolean array, and DataArray.interp raises TypeError for an array that is
\* not numeric
RegionMaskOnGrid(mask, alpha2) ==
    IF mask.lat = TargetLat /\ mask.lon = TargetLon
    THEN [raised |-> "", cells |-> RegionMask(mask, alpha2)]
    ELSE [raised |-> "TypeError", cells |-> {}]

\* area_weighted_mean(field, mask): (value, n_valid, n_mask), the sums over the
\* cells that are in the mask and hold a finite value
AreaWeightedMean(field, cells) ==
    LET used == {c \in cells : IsFinite(field[c])}
        num  == SumSeq([i \in 1..Len(CellSeq) |->
                    IF CellSeq[i] \in used
                    THEN Mul(field[CellSeq[i]], CosLat[CellSeq[i][1]]) ELSE R(0)])
        den  == SumSeq([i \in 1..Len(CellSeq) |->
                    IF CellSeq[i] \in used THEN CosLat[CellSeq[i][1]] ELSE R(0)])
    IN  IF used = {} THEN [value |-> NaN, n_used |-> 0, n_mask |-> Cardinality(cells)]
        ELSE [value |-> Div(num, den), n_used |-> Cardinality(used),
              n_mask |-> Cardinality(cells)]

-----------------------------------------------------------------------------
(* The threshold map: service/threshold_map.py *)

Bases == {"ensemble2015", "historical"}

Scenarios == {Ssp245, Ssp585}

\* the quantiles requested, in thousandths
Quantiles == {500, 950}

\* f"{quantile:.2f}": the quantile in hundredths (no requested quantile lies
\* half-way between two hundredths)
QFmt(q) == (q + 5) \div 10

\* the path thrmap_<basis>_<scenario>_q<quantile:.2f>.nc
ThrPath(basis, scenario, q) == <<basis, scenario, QFmt(q)>>

ThrPaths == {ThrPath(b, sc, q) : b \in Bases, sc \in Scenarios, q \in Quantiles}

\* a file of CACHE_DIR that may hold a threshold map: its data variables, the two
\* maps, and the attribute "quantile"
NoThr ==
    [exists |-> FALSE, names |-> {}, baseline |-> AllNaN, q |-> AllNaN, quantile |-> 0]

\* a dataset without the quantile map
ThrDatasetBaselineOnly(fields, q) ==
    [exists |-> TRUE, names |-> {"baseline"}, baseline |-> MedianOverMembers(fields),
     q |-> AllNaN, quantile |-> q]

\* build_threshold_map, lines 161-178: the dataset that is written, with the
\* median and the quantile over the members and the quantile asked for
ThrDataset(fields, q) ==
    [exists |-> TRUE, names |-> {"baseline", "q"},
     baseline |-> MedianOverMembers(fields),
     q |-> QuantileOverMembers(fields, q), quantile |-> q]

\* the lists a member loop builds
NoMembers(cache) ==
    [cache |-> cache, fields |-> << >>, stacked |-> << >>, models |-> {}, errors |-> << >>]

\* build_threshold_map, lines 140-154: the loop over the candidate files
RECURSIVE ThrLoop(_, _, _)
ThrLoop(cands, i, acc) ==
    IF i > Len(cands) THEN acc
    ELSE LET f   == cands[i]
             dl  == Download(acc.cache, f.key)
             da  == AnnualMean2015OnTarget(dl.cache, dl.path)
             err == IF ~dl.ok THEN "download failed"
                    ELSE IF ~da.ok THEN da.err
                    ELSE IF ~AnyFinite(da.field) THEN "field is all-NaN after preprocessing"
                    ELSE ""
         IN  ThrLoop(cands, i + 1,
                IF err = ""
                THEN [acc EXCEPT !.cache = dl.cache,
                                 !.fields = Append(@, da.field),
                                 !.stacked = Append(@, f.key),
                                 !.models = @ \cup {f.model}]
                ELSE [acc EXCEPT !.cache = dl.cache,
                                 !.errors = Append(@, [unit |-> f.key, error |-> err])])

\* the candidates of build_threshold_map, line 131
ThrCandidates(files, scenario) ==
    SelectSeq(files, LAMBDA f : IsScenario(f, scenario) /\ CoversYear(f, 2015))

\* build_threshold_map(client, bucket, scenario, quantile, basis)
BuildThresholdMap(scenario, q, basis) ==
    LET req   == [op |-> "threshold_map", scenario |-> scenario, q |-> q, basis |-> basis]
        cands == ThrCandidates(indexFile.files, scenario)
        units == [i \in 1..Len(cands) |-> cands[i].key]
        fail(exc, cond, looped, a) ==
            /\ last' = req @@ [status |-> "error", exc |-> exc, cond |-> cond,
                               looped |-> looped, cands |-> units,
                               stacked |-> a.stacked, errors |-> a.errors]
            /\ dlCache' = a.cache
            /\ UNCHANGED <<storage, indexFile, maskFile, geojsonFile, thrFiles, fn, writer, reqs>>
    IN  IF ~indexFile.exists
        THEN fail("ValueError", "IndexNotFound", FALSE, NoMembers(dlCache))
        ELSE IF basis # "ensemble2015"
        THEN fail("ValueError", "UnknownBasis", FALSE, NoMembers(dlCache))
        ELSE \E acc \in {ThrLoop(cands, 1, NoMembers(dlCache))} :
             IF acc.fields = << >>
             THEN fail("ValueError", "NoUsableData", TRUE, acc)
             ELSE /\ thrFiles' = [thrFiles EXCEPT ![ThrPath(basis, scenario, q)] =
                                      ThrDataset(acc.fields, q)]
                  /\ dlCache' = acc.cache
                  /\ last' = req @@ [status |-> "ok", exc |-> "", cond |-> "",
                                     looped |-> TRUE, cands |-> units,
                                     stacked |-> acc.stacked, errors |-> acc.errors,
                                     n_inputs |-> Len(acc.fields),
                                     n_models |-> Cardinality(acc.models)]
                  /\ UNCHANGED <<storage, indexFile, maskFile, geojsonFile, fn, writer, reqs>>

-----------------------------------------------------------------------------
(* The windowed ensemble field: service/window_field.py *)

\* window_field, lines 103-113: the loop over the candidate files; a file that
\* fails, or whose field holds no finite value, is passed over
RECURSIVE WindowLoop(_, _, _, _, _)
WindowLoop(cands, i, acc, y0, y1) ==
    IF i > Len(cands) THEN acc
    ELSE LET f  == cands[i]
             dl == Download(acc.cache, f.key)
             da == AnnualMeanWindowOnTarget(dl.cache, dl.path, y0, y1)
         IN  WindowLoop(cands, i + 1,
                IF dl.ok /\ da.ok /\ AnyFinite(da.field)
                THEN [acc EXCEPT !.cache = dl.cache,
                                 !.fields = Append(@, da.field),
                                 !.stacked = Append(@, f.key),
                                 !.models = @ \cup {f.model}]
                ELSE [acc EXCEPT !.cache = dl.cache],
                y0, y1)

\* the candidates of window_field, line 98
WindowCandidates(files, scenario, y0, y1) ==
    SelectSeq(files, LAMBDA f :
        Lower(f.scenario) = Lower(scenario) /\ CoversYearRange(f, y0, y1))

\* window_field(client, bucket, scenario, y0, y1)
WindowField(scenario, y0, y1) ==
    LET req   == [op |-> "window_field", scenario |-> scenario, y0 |-> y0, y1 |-> y1]
        cands == WindowCandidates(indexFile.files, scenario, y0, y1)
        units == [i \in 1..Len(cands) |-> cands[i].key]
        out(status, exc, cond, looped, a, field) ==
            /\ last' = req @@ [status |-> status, exc |-> exc, cond |-> cond,
                               looped |-> looped, cands |-> units,
                               stacked |-> a.stacked, errors |-> a.errors,
                               field |-> field]
            /\ dlCache' = a.cache
            /\ UNCHANGED <<storage, indexFile, maskFile, geojsonFile, thrFiles, fn, writer, reqs>>
    IN  IF ~indexFile.exists
        THEN out("error", "FileNotFoundError", "IndexNotFound", FALSE,
                 NoMembers(dlCache), AllNaN)
        ELSE IF cands = << >>
        THEN out("error", "ValueError", "NoFiles", FALSE, NoMembers(dlCache), AllNaN)
        ELSE \E acc \in {WindowLoop(cands, 1, NoMembers(dlCache), y0, y1)} :
             IF acc.fields = << >>
             THEN out("error", "ValueError", "NoUsableData", TRUE, acc, AllNaN)
             ELSE out("ok", "", "", TRUE, acc, MedianOverMembers(acc.fields))

-----------------------------------------------------------------------------
(* The region shock: service/shock.py *)

\* the (model, run) pairs of the candidates, in the order they first appear
GroupIds(cand) ==
    LET ids    == [i \in 1..Len(cand) |-> <<cand[i].model, cand[i].run>>]
        firsts == SelectSeq([i \in 1..Len(cand) |-> i],
                            LAMBDA i : \A j \in 1..(i - 1) : ids[j] # ids[i])
    IN  [g \in 1..Len(firsts) |-> ids[firsts[g]]]

\* the keys of the segments of one (model, run), in catalog order
SegKeys(cand, id) ==
    LET segs == SelectSeq(cand, LAMBDA f : <<f.model, f.run>> = id)
    IN  [i \in 1..Len(segs) |-> segs[i].key]

\* compute_region_shock, lines 139-154: the loop over the (model, run) groups
RECURSIVE ShockLoop(_, _, _, _, _, _)
ShockLoop(cand, groups, i, acc, y0, y1) ==
    IF i > Len(groups) THEN acc
    ELSE LET id  == groups[i]
             dl  == DownloadAll(acc.cache, SegKeys(cand, id))
             da  == WindowMeanOnTargetFromPaths(dl.cache, dl.paths, y0, y1)
             err == IF ~dl.ok THEN "download failed"
                    ELSE IF ~da.ok THEN da.err
                    ELSE IF ~AnyFinite(da.field) THEN "field all-NaN after preprocessing"
                    ELSE ""
         IN  ShockLoop(cand, groups, i + 1,
                IF err = ""
                THEN [acc EXCEPT !.cache = dl.cache,
                                 !.fields = Append(@, da.field),
                                 !.stacked = Append(@, id),
                                 !.models = @ \cup {id[1]}]
                ELSE [acc EXCEPT !.cache = dl.cache,
                                 !.errors = Append(@, [unit |-> id, error |-> err])],
                y0, y1)

\* a variant of the statistic: the reference is not checked before dividing
ShockStatUnguarded(proj_val, ref, stat) ==
    IF stat = "diff" THEN Sub(proj_val, ref)
    ELSE Sub(Div(proj_val, ref), R(1))

\* compute_region_shock, lines 182-185
ShockStat(proj_val, ref, stat) ==
    IF stat = "diff" THEN Sub(proj_val, ref)
    ELSE IF IsFinite(ref) /\ ref.n # 0 THEN Sub(Div(proj_val, ref), R(1))
    ELSE NaN

\* the candidates of compute_region_shock, line 124
ShockCandidates(files, scenario, y0, y1) ==
    SelectSeq(files, LAMBDA f : f.scenario = scenario /\ CoversYearRange(f, y0, y1))

\* a variant of the mask check: the request goes on without a mask file
MaskPresentUnchecked == TRUE

\* compute_region_shock, line 116: os.path.exists(mask_path)
MaskPresent == maskFile.exists

\* a variant of the reference map: when the file of the key is absent, another
\* map of the scenario is taken
ThresholdMapOrOther(basis, scenario, q) ==
    IF thrFiles[ThrPath(basis, scenario, q)].exists
    THEN thrFiles[ThrPath(basis, scenario, q)]
    ELSE IF \E t \in ThrPaths : t[2] = scenario /\ thrFiles[t].exists
    THEN thrFiles[CHOOSE t \in ThrPaths : t[2] = scenario /\ thrFiles[t].exists]
    ELSE NoThr

\* compute_region_shock, lines 164-174: the file at thr_path, if there is one
ThresholdMapAt(basis, scenario, q) == thrFiles[ThrPath(basis, scenario, q)]

\* compute_region_shock(client, bucket, alpha2, scenario, y0, y1, mode, q, basis,
\* agg, stat)
ComputeRegionShock(alpha2, scenario, y0, y1, mode, q, basis, agg, stat) ==
    LET req    == [op |-> "shock", alpha2 |-> alpha2, scenario |-> scenario,
                   y0 |-> y0, y1 |-> y1, mode |-> mode, q |-> q, basis |-> basis,
                   agg |-> agg, stat |-> stat]
        cand   == ShockCandidates(indexFile.files, scenario, y0, y1)
        groups == GroupIds(cand)
        fail(exc, cond, looped, a) ==
            /\ last' = req @@ [status |-> "error", exc |-> exc, cond |-> cond,
                               looped |-> looped, cands |-> groups,
                               stacked |-> a.stacked, errors |-> a.errors]
            /\ dlCache' = a.cache
            /\ UNCHANGED <<storage, indexFile, maskFile, geojsonFile, thrFiles, fn, writer, reqs>>
        done(acc, proj, pv, ref) ==
            /\ last' = req @@ [status |-> "ok", exc |-> "", cond |-> "",
                               looped |-> TRUE, cands |-> groups,
                               stacked |-> acc.stacked, errors |-> acc.errors,
                               value |-> ShockStat(pv.value, ref, stat),
                               proj_country |-> pv.value, ref_country |-> ref,
                               field |-> proj,
                               n_members |-> Len(acc.fields),
                               n_models |-> Cardinality(acc.models)]
            /\ dlCache' = acc.cache
            /\ UNCHANGED <<storage, indexFile, maskFile, geojsonFile, thrFiles, fn, writer, reqs>>
    IN  IF ~MaskPresent
        THEN fail("FileNotFoundError", "MaskNotFound", FALSE, NoMembers(dlCache))
        ELSE IF ~indexFile.exists
        THEN fail("ValueError", "IndexNotFound", FALSE, NoMembers(dlCache))
        ELSE IF cand = << >>
        THEN fail("ValueError", "NoFiles", FALSE, NoMembers(dlCache))
        ELSE \E acc \in {ShockLoop(cand, groups, 1, NoMembers(dlCache), y0, y1)} :
             IF acc.fields = << >>
             THEN fail("ValueError", "NoUsableData", TRUE, acc)
             ELSE \E proj \in {IF agg = "mean" THEN MeanOverMembers(acc.fields)
                               ELSE MedianOverMembers(acc.fields)} :
                  \E pv \in {CountryWeightedMean(proj, maskFile, alpha2)} :
                  IF ~pv.ok
                  THEN fail("ValueError", pv.err, TRUE, acc)
                  ELSE \E thr \in {ThresholdMapAt(basis, scenario, q)} :
                       IF ~thr.exists
                       THEN fail("FileNotFoundError", "MissingReferenceMap", TRUE, acc)
                       ELSE \E bv \in {CountryWeightedMean(thr.baseline, maskFile, alpha2)},
                               qv \in {CountryWeightedMean(thr.q, maskFile, alpha2)} :
                            done(acc, proj, pv,
                                 IF mode = "baseline" THEN bv.value ELSE qv.value)

-----------------------------------------------------------------------------
(* The service: requests arrive one at a time against the cache directory *)

Alpha2s == {"FR", "DE", "LU", "XX"}

\* the windows [y0, y1] requested
Windows == {<<2015, 2015>>, <<2016, 2017>>, <<2015, 2017>>, <<2017, 2017>>, <<2017, 2015>>}

Modes == {"baseline", "percentile"}

Aggs == {"median", "mean"}

Stats == {"ratio", "diff", "delta"}

\* the objects that may be removed from the archive while the service runs
Volatile == {KeyA2}

NoRequest == [op |-> "none"]

\* no reindex request is being served
Idle == [pc |-> "idle"]

\* the workers of the server that take requests side by side
ReqIds == {1, 2}

\* no worker is serving a request
NoReqs == [r \in ReqIds |-> Idle]

EmptyCache ==
    /\ indexFile = NoIndex
    /\ dlCache = [b \in LocalNames |-> NoFile]
    /\ maskFile = NoMask
    /\ geojsonFile = NoGeojson
    /\ thrFiles = [t \in ThrPaths |-> NoThr]

Init ==
    /\ storage = Archive
    /\ EmptyCache
    /\ last = NoRequest
    /\ fn = NoRequest
    /\ writer = Idle
    /\ reqs = NoReqs

\* list_index and _load_index: os.path.exists, open, json.load; a text that
\* stops before its end makes json.load raise JSONDecodeError
ReadIndex ==
    /\ last' = [op |-> "read_index", writing |-> writer.pc = "open",
                old |-> IF writer = Idle THEN indexFile ELSE writer.before,
                new |-> IF writer = Idle THEN indexFile
                        ELSE [exists |-> TRUE, files |-> writer.items,
                              count |-> Len(writer.items)],
                exc |-> IF ~indexFile.exists THEN "NotFound"
                        ELSE IF "count" \notin DOMAIN indexFile THEN "JSONDecodeError"
                        ELSE "",
                doc |-> IF indexFile.exists /\ "count" \in DOMAIN indexFile
                        THEN indexFile ELSE NoIndex]
    /\ UNCHANGED <<storage, indexFile, dlCache, maskFile, geojsonFile, thrFiles, fn, writer, reqs>>

\* a request of the service
Request ==
    \/ \E prefix \in Prefixes : Reindex(prefix)
    \/ \E src \in Sources, overwrite \in BOOLEAN : EnsureCountryMask(src, overwrite)
    \/ \E sc \in Scenarios, q \in Quantiles, b \in Bases : BuildThresholdMap(sc, q, b)
    \/ \E sc \in Scenarios, w \in Windows : WindowField(sc, w[1], w[2])
    \/ \E a \in Alpha2s, sc \in Scenarios, w \in Windows, m \in Modes, q \in Quantiles,
          g \in Aggs, st \in Stats :
          ComputeRegionShock(a, sc, w[1], w[2], m, q, "ensemble2015", g, st)
    \/ \E k \in Volatile : DeleteObject(k)
    \/ ReadIndex

\* the response has been sent: nothing of the request is kept but the cache
Respond ==
    /\ last # NoRequest
    /\ last' = NoRequest
    /\ UNCHANGED <<storage, indexFile, dlCache, maskFile, geojsonFile, thrFiles, fn, writer, reqs>>

\* requests are served one after the other
Next ==
    \/ (last = NoRequest /\ Request)
    \/ Respond

Spec == Init /\ [][Next]_vars

(* The catalog alone, over a changing archive *)

InitIndex ==
    /\ storage = {}
    /\ EmptyCache
    /\ last = NoRequest
    /\ fn = NoRequest
    /\ writer = Idle
    /\ reqs = NoReqs

NextIndex ==
    \/ \E k \in Keys : PutObject(k)
    \/ \E k \in Keys : DeleteObject(k)
    \/ \E prefix \in Prefixes : Reindex(prefix)

SpecIndex == InitIndex /\ [][NextIndex]_vars

(* The threshold maps over an archive that shrinks, quantiles of three decimals
   included *)

\* the objects of the archive, one of them under a folder with the file name of
\* another
ThrKeys == {KeyA1, KeyB, KeyD, KeyPA1}

\* the quantiles of the requests: any number of [0, 1] is accepted
ThrQuantiles == Quantiles \cup {954}

InitThr ==
    /\ storage \in SUBSET ThrKeys
    /\ EmptyCache
    /\ last = NoRequest
    /\ fn = NoRequest
    /\ writer = Idle
    /\ reqs = NoReqs

RequestThr ==
    \/ Reindex(<< >>)
    \/ \E sc \in Scenarios, q \in ThrQuantiles, b \in Bases : BuildThresholdMap(sc, q, b)
    \/ \E k \in ThrKeys : DeleteObject(k)

NextThr ==
    \/ (last = NoRequest /\ RequestThr)
    \/ Respond

SpecThr == InitThr /\ [][NextThr]_vars

(* The aggregation and the statistic alone, over every small input *)

\* the largest cell value of the fields that are aggregated
MaxVal == 2

FieldVals == {NaN} \cup {R(i) : i \in 0..MaxVal}

\* country values: missing, infinite, zero, and those of the documented examples
CountryVals == {NaN, Inf(1), R(0), R(9), R(18), R(100), R(120)}

AggInputs ==
    [op : {"aggregate"}, field : [Cells -> FieldVals], alpha2 : Alpha2s,
     src : Sources, done : {FALSE}]

StatInputs ==
    [op : {"shock_stat"}, proj : CountryVals, ref : CountryVals, stat : Stats,
     done : {FALSE}]

\* a call target_grid(**kwargs): the function is defined without parameters, so
\* a call with a keyword argument raises TypeError before its body runs
TargetGridCall(kwargs) ==
    IF kwargs # {} THEN [ok |-> FALSE, exc |-> "TypeError", lat |-> << >>, lon |-> << >>]
    ELSE [ok |-> TRUE, exc |-> "", lat |-> TargetLat, lon |-> TargetLon]

\* tol = 1e-6 degree, the default of check_mask_vs_target
Tol == 1

\* np.max(np.abs(a - b)) of two arrays of the same size
MaxAbsDiff(a, b) ==
    CHOOSE m \in {Abs(a[i] - b[i]) : i \in 1..Len(a)} :
        \A i \in 1..Len(a) : Abs(a[i] - b[i]) <= m

\* check_mask_vs_target(mask_path, res_deg, tol) on a mask file with the
\* coordinate arrays mlat and mlon
CheckMaskVsTarget(exists, mlat, mlon, tol) ==
    LET tg         == TargetGridCall({"res_deg"})
        same_shape == Len(mlat) = Len(tg.lat) /\ Len(mlon) = Len(tg.lon)
    IN  IF ~exists THEN [raised |-> "", ok |-> FALSE, reason |-> "mask_missing"]
        ELSE IF ~tg.ok THEN [raised |-> tg.exc, ok |-> FALSE, reason |-> ""]
        ELSE [raised |-> "",
              ok |-> /\ same_shape
                     /\ MaxAbsDiff(mlat, tg.lat) <= tol
                     /\ MaxAbsDiff(mlon, tg.lon) <= tol,
              reason |-> ""]

\* the coordinate arrays of the mask files that are checked: those of the grid,
\* one value off by a millionth and by a hundredth of a degree, another size
MaskLats ==
    {TargetLat, [TargetLat EXCEPT ![2] = @ + 1], [TargetLat EXCEPT ![2] = @ + 10000],
     <<0>>, TargetLat \o <<120000000>>}

MaskLons ==
    {TargetLon, [TargetLon EXCEPT ![1] = @ - 10000], Tail(TargetLon)}

GridInputs ==
    [op : {"check_grid"}, exists : BOOLEAN, lat : MaskLats, lon : MaskLons,
     done : {FALSE}]

\* the coordinate arrays of mask files of the grid's size: those of the grid, the
\* latitudes from north to south, the longitudes one degree further east
GridLats == {TargetLat, <<60000000, 0>>}

GridLons == {TargetLon, [j \in 1..NLon |-> TargetLon[j] + 1000000]}

\* a field on the grid and a mask file of the grid's size, with its own
\* coordinate arrays
MaskInputs ==
    [op : {"on_mask"},
     field : {Land(a, b, c, R(0)) : a \in FieldVals, b \in FieldVals, c \in FieldVals},
     alpha2 : Alpha2s, src : Sources, lat : GridLats, lon : GridLons, done : {FALSE}]

\* the largest number of members of a stack that is reduced
MaxMembers == 3

\* a member's field: one value at the first cell, one at the others
TwoValued(a, b) == [c \in Cells |-> IF c = <<1, 1>> THEN a ELSE b]

\* the other cells hold one value or are missing
MemberFields == {TwoValued(a, b) : a \in FieldVals, b \in {NaN, R(1)}}

\* stacks of 1..MaxMembers members; a member may miss any cell
StackInputs ==
    [op : {"reduce"},
     stack : UNION {[1..n -> MemberFields] : n \in 1..MaxMembers},
     done : {FALSE}]

\* object keys put together from a folder, six tokens and two dates, those of the
\* naming grammar and others: a token that is empty or holds "_", a date of four
\* digits, a newline after the name; tokens of the grammar may hold "-" and "."
KeyFolders == {<< >>, <<"p", "/">>, <<"p", "_", "q", "/">>}

ModelTokens ==
    {<<"A">>, <<"A", "-", "1">>, Span(D201501, D201512) \o DotNc, << >>, <<"A", "_", "B">>}

ScenarioTokens == {Ssp245, <<"s", "s", "p">> \o DotNc}

DateTokens == {D201501, D201712, <<"2", "0", "1", "5">>}

KeyInputs ==
    [op : {"parse"}, folder : KeyFolders, model : ModelTokens, scenario : ScenarioTokens,
     start : DateTokens, end : DateTokens, newline : BOOLEAN, done : {FALSE}]

\* the key of such an input
KeyOf(x) ==
    x.folder \o FileName(x.model, x.scenario, Run1, x.start, x.end)
        \o (IF x.newline THEN <<"\n">> ELSE << >>)

\* sortby: the values of a coordinate in increasing order
RECURSIVE SortAsc(_)
SortAsc(a) ==
    IF a = << >> THEN << >>
    ELSE LET i == CHOOSE h \in 1..Len(a) : \A g \in 1..Len(a) : a[h] <= a[g]
         IN  <<a[i]>> \o SortAsc(SubSeq(a, 1, i - 1) \o SubSeq(a, i + 1, Len(a)))

\* argmax of a coordinate: the first position of its largest value
ArgMax(a) ==
    CHOOSE i \in 1..Len(a) :
        /\ \A g \in 1..Len(a) : a[g] <= a[i]
        /\ \A g \in 1..(i - 1) : a[g] < a[i]

\* a variable of a source file: its latitudes and longitudes in millionths of a
\* degree, the values of its vertical coordinate (none when it has no vertical
\* dimension) and the value it holds on each level, the same at every point
\* and time
SourceLats == {TargetLat, <<60000000, 0>>}

SourceLons ==
    {<<500000, 1500000>>, <<500000, 200500000>>, <<-179500000, 500000>>,
     <<200500000, 500000>>}

LevelCoords == {<< >>, <<1000, 500>>, <<500, 1000>>, <<10, 1000, 500>>}

NormInputs ==
    {[op |-> "normalize", lat |-> la, lon |-> lo, lev |-> lv, vals |-> v, done |-> FALSE] :
        la \in SourceLats, lo \in SourceLons,
        lv \in LevelCoords \ {<< >>}, v \in [1..3 -> FieldVals]}
    \cup
    {[op |-> "normalize", lat |-> la, lon |-> lo, lev |-> << >>, vals |-> <<v, v, v>>,
      done |-> FALSE] :
        la \in SourceLats, lo \in SourceLons, v \in FieldVals}

\* _annual_mean_2015_on_target, _annual_mean_window_on_target and
\* _window_mean_on_target_from_paths after the mean over time: every dimension
\* but latitude and longitude is averaged (skipna), negative longitudes are
\* brought to [0, 360) and sorted, and the field is interpolated to the target
\* grid, whose coordinates it then carries
OnTarget(x) ==
    LET levs  == IF x.lev = << >> THEN <<x.vals[1]>> ELSE SubSeq(x.vals, 1, Len(x.lev))
        lon0  == IF \E j \in 1..Len(x.lon) : x.lon[j] < 0
                 THEN SortAsc([j \in 1..Len(x.lon) |-> (x.lon[j] + 360000000) % 360000000])
                 ELSE x.lon
    IN  [src_lon |-> lon0, lat |-> TargetLat, lon |-> TargetLon, value |-> NanMean(levs)]

\* normalize_da: the level at the largest value of the vertical coordinate is
\* taken; the longitudes are brought to [-180, 180) when one is above 180 or
\* none is negative, and sorted; the latitudes are sorted; the grid stays that
\* of the source
NormalizeDa(x) ==
    LET value == IF x.lev = << >> THEN x.vals[1] ELSE x.vals[ArgMax(x.lev)]
        wrap  == (\E j \in 1..Len(x.lon) : x.lon[j] > 180000000)
                 \/ (\A j \in 1..Len(x.lon) : x.lon[j] >= 0)
        lon   == IF wrap
                 THEN [j \in 1..Len(x.lon) |->
                          ((x.lon[j] + 180000000) % 360000000) - 180000000]
                 ELSE x.lon
    IN  [lat |-> SortAsc(x.lat), lon |-> SortAsc(lon), value |-> value]

\* features of polygon collections: two countries that share a cell, a country
\* whose bounds run from -180 to 180, a feature without a code, a second polygon
\* of a country, a feature without polygon geometry
FeaturePool ==
    {FeatureIn("FR", TRUE, {<<1, 1>>, <<2, 1>>}, 0, 1),
     FeatureIn("DE", TRUE, {<<1, 1>>, <<1, 2>>}, 0, 2),
     FeatureIn("RU", TRUE, {<<1, 1>>, <<2, 2>>}, -180, 180),
     FeatureIn("", TRUE, {<<2, 2>>}, 1, 2),
     FeatureIn("FR", TRUE, {<<2, 2>>}, 1, 2),
     FeatureIn("MC", FALSE, {}, 0, 0)}

\* the number of features of a collection
NFeatures == 3

\* a build of the mask, feature by feature: the features, the next one, the
\* code raster before the last step and now, the lookup
BuildInputs ==
    [op : {"build_mask"}, feats : [1..NFeatures -> FeaturePool], i : {1},
     prev : {[c \in Cells |-> 0]}, code : {[c \in Cells |-> 0]}, lookup : {<< >>},
     done : {FALSE}]

\* the years a window is asked for
Years == 2014..2018

\* start and end fields of a record: the text, the year it stands for, and
\* whether it is a well-formed YYYYMM
DateTable ==
    << [text |-> D201501, year |-> 2015, ok |-> TRUE],
       [text |-> D201512, year |-> 2015, ok |-> TRUE],
       [text |-> D201601, year |-> 2016, ok |-> TRUE],
       [text |-> D201712, year |-> 2017, ok |-> TRUE],
       [text |-> <<"2", "0", "1", "6">>, year |-> 2016, ok |-> FALSE],
       [text |-> <<"2", "0", "1", "6", "0", "1", "0">>, year |-> 2016, ok |-> FALSE],
       [text |-> << >>, year |-> 0, ok |-> FALSE] >>

Ssp245Upper == <<"S", "S", "P", "2", "4", "5">>

SelInputs ==
    [op : {"select"}, s : DOMAIN DateTable, e : DOMAIN DateTable,
     recsc : {Ssp245, Ssp585, Ssp245Upper}, scenario : Scenarios,
     y0 : Years, y1 : Years, done : {FALSE}]

InitFn ==
    /\ storage = Archive
    /\ EmptyCache
    /\ last = NoRequest
    /\ fn \in AggInputs \cup StatInputs \cup SelInputs \cup GridInputs \cup MaskInputs
             \cup StackInputs \cup KeyInputs \cup NormInputs \cup BuildInputs
    /\ writer = Idle
    /\ reqs = NoReqs

\* the field is aggregated over the country by _country_weighted_mean and by
\* region_mask and area_weighted_mean, on the mask built from the polygon source
ApplyAggregate ==
    /\ fn.op = "aggregate" /\ ~fn.done
    /\ LET mask == BuildMaskFromGeojson(fn.src)
       IN  fn' = [fn EXCEPT !.done = TRUE] @@
                 [cwm |-> CountryWeightedMean(fn.field, mask, fn.alpha2),
                  awm |-> AreaWeightedMean(fn.field, RegionMask(mask, fn.alpha2)),
                  cells |-> RegionMask(mask, fn.alpha2),
                  known |-> CodeOf(mask.lookup, fn.alpha2) # 0]
    /\ UNCHANGED <<storage, indexFile, dlCache, maskFile, geojsonFile, thrFiles, last, writer, reqs>>

\* the statistic of compute_region_shock on a projected and a reference value
ApplyShockStat ==
    /\ fn.op = "shock_stat" /\ ~fn.done
    /\ fn' = [fn EXCEPT !.done = TRUE] @@
             [value |-> ShockStat(fn.proj, fn.ref, fn.stat)]
    /\ UNCHANGED <<storage, indexFile, dlCache, maskFile, geojsonFile, thrFiles, last, writer, reqs>>

\* the three candidate selections on a catalog of one record: for the year y0
\* (build_threshold_map with that year) and for the window [y0, y1]
ApplySelect ==
    /\ fn.op = "select" /\ ~fn.done
    /\ LET meta == [start |-> DateTable[fn.s].text, end |-> DateTable[fn.e].text,
                    scenario |-> fn.recsc]
       IN  fn' = [fn EXCEPT !.done = TRUE] @@
                 [year |-> IsScenario(meta, fn.scenario) /\ CoversYear(meta, fn.y0),
                  shock |-> ShockCandidates(<<meta>>, fn.scenario, fn.y0, fn.y1) # << >>,
                  window |-> WindowCandidates(<<meta>>, fn.scenario, fn.y0, fn.y1) # << >>]
    /\ UNCHANGED <<storage, indexFile, dlCache, maskFile, geojsonFile, thrFiles, last, writer, reqs>>

\* check_mask_vs_target with the default tolerance
ApplyCheckGrid ==
    /\ fn.op = "check_grid" /\ ~fn.done
    /\ fn' = [fn EXCEPT !.done = TRUE] @@
             [res |-> CheckMaskVsTarget(fn.exists, fn.lat, fn.lon, Tol)]
    /\ UNCHANGED <<storage, indexFile, dlCache, maskFile, geojsonFile, thrFiles, last, writer, reqs>>

\* the two aggregation paths on a mask file with the coordinate arrays given
ApplyOnMask ==
    /\ fn.op = "on_mask" /\ ~fn.done
    /\ \E mask \in {[BuildMaskFromGeojson(fn.src) EXCEPT !.lat = fn.lat, !.lon = fn.lon]} :
           fn' = [fn EXCEPT !.done = TRUE] @@
                 [cwm |-> CountryWeightedMean(fn.field, mask, fn.alpha2),
                  region |-> RegionMaskOnGrid(mask, fn.alpha2)]
    /\ UNCHANGED <<storage, indexFile, dlCache, maskFile, geojsonFile, thrFiles, last, writer, reqs>>

\* the reductions of a stack over "member"
ApplyReduce ==
    /\ fn.op = "reduce" /\ ~fn.done
    /\ fn' = [fn EXCEPT !.done = TRUE] @@
             [median |-> MedianOverMembers(fn.stack), mean |-> MeanOverMembers(fn.stack)]
    /\ UNCHANGED <<storage, indexFile, dlCache, maskFile, geojsonFile, thrFiles, last, writer, reqs>>

\* _parse_key on a key
ApplyParse ==
    /\ fn.op = "parse" /\ ~fn.done
    /\ fn' = [fn EXCEPT !.done = TRUE] @@ [key |-> KeyOf(fn), res |-> ParseKey(KeyOf(fn))]
    /\ UNCHANGED <<storage, indexFile, dlCache, maskFile, geojsonFile, thrFiles, last, writer, reqs>>

\* the normalizations of a variable of a source file
ApplyNormalize ==
    /\ fn.op = "normalize" /\ ~fn.done
    /\ fn' = [fn EXCEPT !.done = TRUE] @@ [target |-> OnTarget(fn), norm |-> NormalizeDa(fn)]
    /\ UNCHANGED <<storage, indexFile, dlCache, maskFile, geojsonFile, thrFiles, last, writer, reqs>>

\* _build_mask_from_geojson: one pass of the loop over the features
BuildStep ==
    /\ fn.op = "build_mask" /\ ~fn.done
    /\ \E r \in {RasterizeFeature(fn.feats[fn.i], fn.code, fn.lookup)} :
           fn' = [fn EXCEPT !.i = @ + 1, !.prev = fn.code, !.code = r.code,
                            !.lookup = r.lookup, !.done = (fn.i = Len(fn.feats))]
    /\ UNCHANGED <<storage, indexFile, dlCache, maskFile, geojsonFile, thrFiles, last, writer, reqs>>

NextFn ==
    \/ ApplyAggregate \/ ApplyShockStat \/ ApplySelect \/ ApplyCheckGrid
    \/ ApplyOnMask \/ ApplyReduce \/ ApplyParse \/ ApplyNormalize \/ BuildStep

SpecFn == InitFn /\ [][NextFn]_vars

-----------------------------------------------------------------------------
(* Properties of the statistic and of the aggregation *)

ShockDone == last.op = "shock" /\ last.status = "ok"

\* C1: for stat = delta, the value the interface accepts for the absolute
\* statistic, compute_region_shock returns the projected country value minus the
\* reference country value, never the ratio
C1_DeltaIsDifference ==
    (ShockDone /\ last.stat = "delta") =>
        last.value = Sub(last.proj_country, last.ref_country)

StatDone(stat) == fn.op = "shock_stat" /\ fn.done /\ fn.stat = stat

\* C2: for stat = ratio the statistic is projected/reference - 1 whenever the
\* reference is finite and not zero (120 over 100 gives 1/5, 18 over 9 gives 1),
\* and NaN, neither an error nor an infinity, whenever the reference is zero,
\* missing or not finite
C2_RatioOrNaN ==
    StatDone("ratio") =>
        /\ (IsFinite(fn.ref) /\ fn.ref # R(0) /\ IsFinite(fn.proj)) =>
               /\ IsFinite(fn.value)
               /\ Mul(Add(fn.value, R(1)), fn.ref) = fn.proj
        /\ (fn.proj = R(120) /\ fn.ref = R(100)) => fn.value = Fin(1, 5)
        /\ (fn.proj = R(18) /\ fn.ref = R(9)) => fn.value = R(1)
        /\ (IsFinite(fn.ref) /\ fn.ref # R(0) /\ ~IsFinite(fn.proj)) =>
               fn.value = Sub(Div(fn.proj, fn.ref), R(1))
        /\ (fn.ref = R(0) \/ ~IsFinite(fn.ref)) => fn.value = NaN

C2_Reached ==
    StatDone("ratio") /\ fn.proj = R(18) /\ fn.ref = R(9) /\ fn.value = R(1)

AggDone == fn.op = "aggregate" /\ fn.done

\* the cells that carry the country's code and hold a finite value
Restricted == {c \in fn.cells : IsFinite(fn.field[c])}

\* the sum of g[c] over the cells c of the set
RECURSIVE SumOver(_, _)
SumOver(cells, g) ==
    IF cells = {} THEN R(0)
    ELSE LET c == CHOOSE x \in cells : TRUE
         IN  Add(g[c], SumOver(cells \ {c}, g))

\* the cosine-latitude weighted mean of the field over the restricted cells
RestrictedMean ==
    Div(SumOver(Restricted, [c \in Cells |-> Mul(fn.field[c], CosLat[c[1]])]),
        SumOver(Restricted, [c \in Cells |-> CosLat[c[1]]]))

\* C3: the aggregate of a field over a country is the cosine-latitude weighted
\* mean over exactly the cells that carry the country's code and hold a finite
\* value, in the numerator and in the denominator alike
C3_MeanOverRestrictedCells ==
    (AggDone /\ Restricted # {}) =>
        /\ fn.cwm.ok /\ fn.cwm.value = RestrictedMean
        /\ fn.awm.value = RestrictedMean

\* C4: for every field and every country known to the mask, when no cell carries
\* the country's code and a finite value the aggregate is NaN with no cell used,
\* and nothing is raised
C4_EmptySetGivesNaN ==
    (AggDone /\ fn.known /\ Restricted = {}) =>
        /\ fn.cwm.ok /\ fn.cwm.value = NaN
        /\ fn.awm.value = NaN /\ fn.awm.n_used = 0

-----------------------------------------------------------------------------
(* Properties of the member loops *)

SeqToSet(s) == {s[i] : i \in 1..Len(s)}

\* C5: in the member loops of compute_region_shock, build_threshold_map and
\* window_field every candidate member ends up in the stack or in the errors
\* with a recorded entry, and the operation fails for lack of usable data only
\* when no member is left
C5_MembersAccounted ==
    (last.op \in {"shock", "threshold_map", "window_field"} /\ last.looped) =>
        /\ \A u \in SeqToSet(last.cands) :
               \/ u \in SeqToSet(last.stacked)
               \/ \E i \in 1..Len(last.errors) :
                      last.errors[i].unit = u /\ last.errors[i].error # ""
        /\ (last.cond = "NoUsableData") <=> (last.stacked = << >>)

\* the keys of the catalog that belong to a (model, run) of the scenario
SegmentsOf(id, scenario) ==
    LET segs == SelectSeq(indexFile.files, LAMBDA f :
                    <<f.model, f.run>> = id /\ Lower(f.scenario) = Lower(scenario))
    IN  [i \in 1..Len(segs) |-> segs[i].key]

\* the samples of every segment of the member, one after the other, whose year
\* is in the window
SamplesInWindow(id, scenario, y0, y1) ==
    SelectSeq(Concat([i \in 1..Len(SegmentsOf(id, scenario)) |->
                         ObjectData(SegmentsOf(id, scenario)[i])]),
              LAMBDA x : x.year >= y0 /\ x.year <= y1)

\* the ensemble field when each member is worth the mean of its samples in the
\* window
FieldOfMembers(ids, scenario, y0, y1, agg) ==
    LET fields == [i \in 1..Len(ids) |->
                      TimeMean(SamplesInWindow(ids[i], scenario, y0, y1))]
    IN  IF agg = "mean" THEN MeanOverMembers(fields) ELSE MedianOverMembers(fields)

\* the (model, run) pairs of the files that window_field stacked
StackedIds == GroupIds([i \in 1..Len(last.stacked) |-> Parsed[last.stacked[i]]])

\* C6: on every path that produces a windowed ensemble field, the value of a
\* member whose series is split over several segments is the mean over the
\* samples of all its segments in [y0, y1], never a mean or median of
\* per-segment means
C6_ConcatBeforeWindow ==
    /\ ShockDone =>
           last.field = FieldOfMembers(last.stacked, last.scenario,
                                       last.y0, last.y1, last.agg)
    /\ (last.op = "window_field" /\ last.status = "ok") =>
           last.field = FieldOfMembers(StackedIds, last.scenario,
                                       last.y0, last.y1, "median")

-----------------------------------------------------------------------------
(* Properties of the shock request *)

ThrAbsent == ~thrFiles[ThrPath(last.basis, last.scenario, last.q)].exists

C8_MaskRequired ==
    (last.op = "shock") =>
        /\ ~maskFile.exists =>
               /\ last.status = "error"
               /\ last.cond = "MaskNotFound"
               /\ last.exc = "FileNotFoundError"
        /\ last.cond = "MaskNotFound" => ~maskFile.exists

C8_Reached ==
    last.op = "shock" /\ last.cond = "MaskNotFound" /\ indexFile.exists

\* C8, as stated: a shock request made while no country mask is persisted
\* builds and persists the mask and goes on, rather than failing for lack of it
C8_ShockBuildsMask ==
    (last.op = "shock") => (maskFile.exists /\ last.cond # "MaskNotFound")

-----------------------------------------------------------------------------
(* Properties of the catalog *)

Record(key, model, scenario, start, end) ==
    [ok |-> TRUE, var |-> Var, freq |-> Freq, model |-> model, scenario |-> scenario,
     run |-> Run1, grid |-> Grid, start |-> start, end |-> end, key |-> key]

\* the keys whose file name is of the grammar, with the record of each
Grammar ==
    (KeyA1 :> Record(KeyA1, <<"A">>, Ssp245, D201501, D201512)) @@
    (KeyA2 :> Record(KeyA2, <<"A">>, Ssp245, D201601, D201712)) @@
    (KeyB :> Record(KeyB, <<"B">>, Ssp245, D201501, D201712)) @@
    (KeyD :> Record(KeyD, <<"D">>, Ssp245, D201501, D201512)) @@
    (KeyR :> Record(KeyR, <<"E">>, Ssp585, D201712, D201501)) @@
    (KeyPA1 :> Record(KeyPA1, <<"A">>, Ssp245, D201501, D201512))

Listed(prefix) == {k \in storage : StartsWith(k, prefix)}

\* C9: after index_pm25_data the persisted catalog holds exactly one record for
\* each listed key whose file name is of the grammar and no other record, and the
\* persisted count and the returned count are the number of records
C9_CatalogIsListing ==
    (last.op = "reindex") =>
        /\ indexFile.exists
        /\ \A k \in Keys :
               Cardinality({i \in 1..Len(indexFile.files) : indexFile.files[i].key = k})
                   = IF k \in Listed(last.prefix) /\ k \in DOMAIN Grammar THEN 1 ELSE 0
        /\ \A i \in 1..Len(indexFile.files) :
               /\ indexFile.files[i].key \in DOMAIN Grammar
               /\ indexFile.files[i] = Grammar[indexFile.files[i].key]
        /\ indexFile.count = Len(indexFile.files)
        /\ last.count = Len(indexFile.files)

C9_Reached ==
    /\ last.op = "reindex"
    /\ Len(indexFile.files) = 1
    /\ last.before.exists /\ last.before.count = 2
    /\ \E k \in Listed(last.prefix) : k \notin DOMAIN Grammar

\* C10: running index_pm25_data twice with the same prefix over an unchanged
\* listing leaves the catalog of the first run as it is, and the second run
\* returns the count of the first
C10_ReindexIdempotent ==
    (last.op = "reindex" /\ last.repeat) =>
        /\ indexFile = last.before
        /\ last.count = last.before.count

C10_Reached ==
    last.op = "reindex" /\ last.repeat /\ last.count = 2

\* C11: every record of the persisted catalog has start <= end, as YYYYMM
\* values; a key whose start is later than its end is not stored
C11_StartNotAfterEnd ==
    (last.op = "reindex") =>
        \A i \in 1..Len(indexFile.files) :
            IntOf(indexFile.files[i].start) <= IntOf(indexFile.files[i].end)

-----------------------------------------------------------------------------
(* The catalog file while a reindex writes it: index_pm25_data, lines 25-36,  *)
(* step by step, next to a request that reads the file.  The routes are plain *)
(* functions, which the server runs on a pool of threads.                     *)

\* the objects that come and go while the file is written
WriteKeys == {KeyA1, KeyA2, KeyB}

\* the text of the index file up to the first n items: the closing part with
\* "count" is not on disk
TextUpTo(items, n) == [exists |-> TRUE, files |-> SubSeq(items, 1, n)]

\* index_pm25_data, lines 25-32: the listing is scanned into items
ReindexScan(prefix) ==
    /\ writer = Idle
    /\ writer' = [pc |-> "scanned", items |-> IndexItems(storage, prefix),
                  before |-> indexFile]
    /\ UNCHANGED <<storage, indexFile, dlCache, maskFile, geojsonFile, thrFiles, last, fn, reqs>>

\* line 34: open(INDEX_PATH, "w") leaves an empty file
WriteOpen ==
    /\ writer.pc = "scanned"
    /\ indexFile' = TextUpTo(writer.items, 0)
    /\ writer' = [writer EXCEPT !.pc = "open"]
    /\ UNCHANGED <<storage, dlCache, maskFile, geojsonFile, thrFiles, last, fn, reqs>>

\* line 35: json.dump writes the text piece by piece; the buffer is flushed
\* when it is full
WriteFlush ==
    /\ writer.pc = "open"
    /\ Len(indexFile.files) < Len(writer.items)
    /\ indexFile' = TextUpTo(writer.items, Len(indexFile.files) + 1)
    /\ UNCHANGED <<storage, dlCache, maskFile, geojsonFile, thrFiles, last, fn, writer, reqs>>

\* the end of the with block: the rest of the text is flushed and the file is
\* closed; line 36 returns the count
WriteClose ==
    /\ writer.pc = "open"
    /\ indexFile' = [exists |-> TRUE, files |-> writer.items,
                     count |-> Len(writer.items)]
    /\ writer' = Idle
    /\ UNCHANGED <<storage, dlCache, maskFile, geojsonFile, thrFiles, last, fn, reqs>>

NextWrite ==
    \/ \E k \in WriteKeys : PutObject(k)
    \/ \E k \in WriteKeys : DeleteObject(k)
    \/ ReindexScan(<< >>)
    \/ WriteOpen
    \/ WriteFlush
    \/ WriteClose
    \/ ReadIndex

SpecWrite == InitIndex /\ [][NextWrite]_vars

\* C12: a catalog read made while a reindex is replacing an existing catalog
\* observes the whole previous catalog or the whole new one, never an empty or
\* partly written one
C12_ReadsWholeCatalog ==
    (last.op = "read_index" /\ last.writing /\ last.old.exists) =>
        /\ last.exc = ""
        /\ last.doc \in {last.old, last.new}

-----------------------------------------------------------------------------
(* Properties of the candidate selection *)

SelDone == fn.op = "select" /\ fn.done

\* the record's start and end are well-formed YYYYMM texts
SelWellFormed == DateTable[fn.s].ok /\ DateTable[fn.e].ok

\* the record's scenario is the requested one, letter case apart
SelSameScenario ==
    \/ fn.recsc = fn.scenario
    \/ fn.recsc = Ssp245Upper /\ fn.scenario = Ssp245

-----------------------------------------------------------------------------
(* Properties of queries on the catalog *)

NotFoundStyle == {"NotFound", "FileNotFoundError"}

\* C14: a catalog query made while no reindex has ever persisted a catalog
\* (the file listing, build_threshold_map, window_field, compute_region_shock
\* with a mask present) fails with a not-found error and returns no record and
\* no result
C14_QueryBeforeReindexNotFound ==
    (~indexFile.exists) =>
        /\ (last.op = "read_index") =>
               last.exc \in NotFoundStyle /\ last.doc = NoIndex
        /\ (last.op \in {"threshold_map", "window_field"}) =>
               last.status = "error" /\ last.exc \in NotFoundStyle
        /\ (last.op = "shock" /\ maskFile.exists) =>
               last.status = "error" /\ last.exc \in NotFoundStyle

-----------------------------------------------------------------------------
(* Properties of the alignment check *)

GridDone == fn.op = "check_grid" /\ fn.done /\ fn.exists

\* the arrays have the sizes of the grid's and no value is further than the
\* tolerance from the grid's
WithinTol(a, b) ==
    Len(a) = Len(b) /\ \A i \in 1..Len(a) : a[i] - b[i] <= Tol /\ b[i] - a[i] <= Tol

\* C15: on an existing mask the alignment check returns ok = true when the
\* mask's lat and lon arrays equal the grid's (same sizes, no difference above
\* the tolerance) and ok = false when a latitude is off by 0.01 degree or the
\* sizes differ, and it raises in neither case
C15_AlignmentCheck ==
    GridDone =>
        /\ fn.res.raised = ""
        /\ (WithinTol(fn.lat, TargetLat) /\ WithinTol(fn.lon, TargetLon)) => fn.res.ok
        /\ (fn.lat = [TargetLat EXCEPT ![2] = @ + 10000]) => ~fn.res.ok
        /\ (Len(fn.lat) # Len(TargetLat) \/ Len(fn.lon) # Len(TargetLon)) => ~fn.res.ok


-----------------------------------------------------------------------------
(* C16: a mask on another grid *)

MaskDone == fn.op = "on_mask" /\ fn.done

Misaligned == fn.lat # TargetLat \/ fn.lon # TargetLon

\* C16: a mask whose coordinate arrays differ from those of the canonical grid is
\* rejected by both aggregation paths: the weighted mean of the shock yields no
\* value from it, and region_mask returns no mask for it
C16_MisalignedMaskRejected ==
    (MaskDone /\ Misaligned) => (~fn.cwm.ok /\ fn.region.raised # "")


-----------------------------------------------------------------------------
(* C17: the median over the members *)

ReduceDone == fn.op = "reduce" /\ fn.done

\* the indices of the members that hold a finite value at the cell
FiniteAt(c) == {i \in 1..Len(fn.stack) : IsFinite(fn.stack[i][c])}

Below(c, i) == {g \in FiniteAt(c) : Less(fn.stack[g][c], fn.stack[i][c])}

Above(c, i) == {g \in FiniteAt(c) : Less(fn.stack[i][c], fn.stack[g][c])}

\* m is the statistical median of the finite member values at the cell: the
\* middle value of an odd count, the midpoint of the two middle values of an
\* even count
IsMedianAt(c, m) ==
    LET n == Cardinality(FiniteAt(c))
    IN  \E i, j \in FiniteAt(c) :
            /\ Cardinality(Below(c, i)) <= (n - 1) \div 2
            /\ Cardinality(Above(c, i)) <= n \div 2
            /\ Cardinality(Above(c, j)) <= (n - 1) \div 2
            /\ Cardinality(Below(c, j)) <= n \div 2
            /\ IsFinite(m)
            /\ m.n * 2 * fn.stack[i][c].d * fn.stack[j][c].d
                 = m.d * (fn.stack[i][c].n * fn.stack[j][c].d
                          + fn.stack[j][c].n * fn.stack[i][c].d)

-----------------------------------------------------------------------------
(* C18: the threshold map of two models *)

ThrDone == last.op = "threshold_map" /\ last.status = "ok"

\* the map has been built with quantile 0.95 on the 2015 ensemble from the files
\* of exactly two models, the only ones of the scenario that cover 2015
TwoModels ==
    /\ ThrDone /\ last.basis = "ensemble2015" /\ last.q = 950
    /\ Len(last.cands) = 2 /\ last.stacked = last.cands

ThrWritten == thrFiles[ThrPath(last.basis, last.scenario, last.q)]

\* the mean of a file's samples of 2015 at a cell
Mean2015At(key, c) ==
    LET sel == SelectSeq(ObjectData(key), LAMBDA x : x.year = 2015)
    IN  NanMean([i \in 1..Len(sel) |-> sel[i].field[c]])

\* the 2015 means of the two models at a cell, those that are present
PresentAt(c) == NotNaN(<<Mean2015At(last.cands[1], c), Mean2015At(last.cands[2], c)>>)

LoAt(c) ==
    LET v == PresentAt(c)
    IN  IF Len(v) = 1 \/ Leq(v[1], v[2]) THEN v[1] ELSE v[2]

HiAt(c) ==
    LET v == PresentAt(c)
    IN  IF Len(v) = 1 \/ Leq(v[2], v[1]) THEN v[1] ELSE v[2]

SameNumber(x, y) == x.k = y.k /\ x.n * y.d = y.n * x.d

BaselineIsMedian(c) ==
    IF PresentAt(c) = << >> THEN IsNaN(ThrWritten.baseline[c])
    ELSE SameNumber(ThrWritten.baseline[c], Div(Add(LoAt(c), HiAt(c)), R(2)))

\* C18 (as stated): with exactly two models, quantile 0.95 and basis ensemble2015
\* the baseline is at every cell the median of the two models' 2015 means and the
\* quantile map is the larger of the two values
C18_QuantileIsLarger ==
    TwoModels =>
        \A c \in Cells :
            /\ BaselineIsMedian(c)
            /\ PresentAt(c) # << >> => SameNumber(ThrWritten.q[c], HiAt(c))

\* C18 (amended): the baseline is the median of the two 2015 means, and the quantile
\* map lies between them, at lo + 0.95 * (hi - lo)
C18_QuantileInterpolates ==
    TwoModels =>
        \A c \in Cells :
            /\ BaselineIsMedian(c)
            /\ IF PresentAt(c) = << >> THEN IsNaN(ThrWritten.q[c])
               ELSE SameNumber(ThrWritten.q[c],
                        Add(LoAt(c), Mul(Fin(19, 20), Sub(HiAt(c), LoAt(c)))))

\* two models whose 2015 means differ at a cell, and a cell where one is missing
C18_Reached ==
    /\ TwoModels
    /\ \E c \in Cells : Len(PresentAt(c)) = 2 /\ Less(LoAt(c), HiAt(c))
    /\ \E c \in Cells : Len(PresentAt(c)) = 1


-----------------------------------------------------------------------------
(* C19: the key of a threshold map *)

\* C19: threshold maps are kept by the whole tuple (basis, scenario, quantile):
\* the file a shock request with quantile q reads, if there is one, holds the map
\* that was built with exactly that quantile
C19_KeyedByTuple ==
    \A b \in Bases, sc \in Scenarios, q \in ThrQuantiles :
        ThresholdMapAt(b, sc, q).exists => ThresholdMapAt(b, sc, q).quantile = q


-----------------------------------------------------------------------------
(* C20: a threshold map is built wholly or not at all *)

\* a request to build a threshold map is served in this step
ThrServed == last = NoRequest /\ last'.op = "threshold_map"

\* C20: when build_threshold_map fails (no catalog, unknown basis, no usable
\* member) no file that may hold a threshold map is created or changed; when it
\* succeeds the file of its key holds both the baseline and the quantile map
C20_NoPartialSuccess ==
    [][ThrServed =>
          IF last'.status = "error"
          THEN /\ last'.cond \in {"IndexNotFound", "UnknownBasis", "NoUsableData"}
               /\ thrFiles' = thrFiles
          ELSE /\ thrFiles'[ThrPath(last'.basis, last'.scenario, last'.q)].exists
               /\ thrFiles'[ThrPath(last'.basis, last'.scenario, last'.q)].names
                    = {"baseline", "q"}
               /\ \A t \in ThrPaths \ {ThrPath(last'.basis, last'.scenario, last'.q)} :
                      thrFiles'[t] = thrFiles[t]]_vars

\* a build has failed for lack of usable members while the map of its key, built
\* earlier, is there
C20_Reached ==
    /\ last.op = "threshold_map" /\ last.status = "error" /\ last.cond = "NoUsableData"
    /\ thrFiles[ThrPath(last.basis, last.scenario, last.q)].exists


-----------------------------------------------------------------------------
(* C21: the country mask is built once *)

\* a call of ensure_country_mask is served in this step
EnsureServed == last = NoRequest /\ last'.op = "ensure_mask"

\* C21: ensure_country_mask on a mask that exists, without overwrite, reports
\* created = false and leaves the mask file and the polygon file as they are
\* (nothing is downloaded, nothing rasterized); it builds and writes a mask and
\* reports created = true exactly when the mask is absent or overwrite is set
C21_MaskBuiltOnce ==
    [][EnsureServed =>
          IF maskFile.exists /\ ~last'.overwrite
          THEN /\ ~last'.created
               /\ maskFile' = maskFile
               /\ geojsonFile' = geojsonFile
          ELSE /\ last'.created
               /\ maskFile'.exists
               /\ maskFile' = BuildMaskFromGeojson(geojsonFile')]_vars

\* an existing mask has been reused by a call that names another polygon source
\* than the one the mask was built from
C21_Reached ==
    /\ last.op = "ensure_mask" /\ ~last.created /\ ~last.overwrite
    /\ maskFile.exists
    /\ last.src # geojsonFile


-----------------------------------------------------------------------------
(* C22: parsing a name and putting it together again *)

ParseDone == fn.op = "parse" /\ fn.done

NoUnderscore(t) == t # << >> /\ \A i \in 1..Len(t) : t[i] # "_"

SixDigits(t) == Len(t) = 6 /\ \A i \in 1..6 : IsDigit(t[i])

\* the file name of the key is of the naming grammar
\* var_freq_model_scenario_run_grid_start-end.nc
OfGrammar ==
    /\ NoUnderscore(fn.model) /\ NoUnderscore(fn.scenario)
    /\ SixDigits(fn.start) /\ SixDigits(fn.end)
    /\ ~fn.newline

\* the name put together from the fields of a record
Reconstruct(r) ==
    r.var \o U \o r.freq \o U \o r.model \o U \o r.scenario \o U \o r.run \o U \o r.grid
        \o U \o r.start \o <<"-">> \o r.end \o DotNc

SameTuple(r, t) ==
    /\ r.ok = t.ok
    /\ r.scenario = t.scenario /\ r.model = t.model /\ r.run = t.run
    /\ r.start = t.start /\ r.end = t.end

\* C22: for every key whose file name is of the naming grammar the parse succeeds
\* with the tokens the name was made of, the name put together from the parsed
\* fields is the file name of the key, and parsing that name gives the same
\* scenario, model, run and time range
C22_ParseRoundTrip ==
    (ParseDone /\ OfGrammar) =>
        /\ fn.res.ok
        /\ fn.res.model = fn.model /\ fn.res.scenario = fn.scenario
        /\ fn.res.start = fn.start /\ fn.res.end = fn.end
        /\ Reconstruct(fn.res) = BaseName(fn.key)
        /\ SameTuple(ParseKey(Reconstruct(fn.res)), fn.res)

\* a name of the grammar under a folder whose name holds "_", with a model token
\* that looks like the end of a name
C22_Reached ==
    /\ ParseDone /\ OfGrammar
    /\ fn.folder = <<"p", "_", "q", "/">>
    /\ fn.model = Span(D201501, D201512) \o DotNc
    /\ fn.start # fn.end


-----------------------------------------------------------------------------
(* C23, C24: the normalized field *)

NormDone == fn.op = "normalize" /\ fn.done

\* the coordinates of the canonical grid: latitudes and longitudes strictly
\* increasing, the longitudes within [0, 360)
Canonical(f) ==
    /\ f.lat = TargetLat /\ f.lon = TargetLon
    /\ \A j \in 1..Len(f.lon) : 0 <= f.lon[j] /\ f.lon[j] < 360000000
    /\ \A j \in 1..(Len(f.lon) - 1) : f.lon[j] < f.lon[j + 1]
    /\ \A i \in 1..(Len(f.lat) - 1) : f.lat[i] < f.lat[i + 1]

\* C23: every field a normalization routine produces carries exactly the
\* coordinates of the canonical grid, whatever the longitude convention of the
\* source; none leaves the longitudes in another range than [0, 360)
C23_CanonicalCoordinates ==
    NormDone => (Canonical(fn.target) /\ Canonical(fn.norm))


\* the value the variable holds on the level whose coordinate is the largest
AtLargestLevel ==
    fn.vals[CHOOSE l \in 1..Len(fn.lev) : \A g \in 1..Len(fn.lev) : fn.lev[g] <= fn.lev[l]]

\* C24: when the source variable has a vertical dimension, the field normalized
\* on the paths of the threshold maps and of the windowed fields is the field of
\* the level with the largest coordinate value, not an average over the levels
C24_LargestLevelSelected ==
    (NormDone /\ fn.lev # << >>) => fn.target.value = AtLargestLevel


-----------------------------------------------------------------------------
(* C25: the first country wins a cell *)

BuildRunning == fn.op = "build_mask" /\ fn.i > 1

\* the feature has a code and polygon geometry, and its polygon contains the
\* centre of the cell
Contains(f, c) == f.iso2 # "" /\ f.geom /\ c \in f.cells

\* the first feature in source order whose polygon contains the cell centre
FirstContaining(c) ==
    CHOOSE h \in 1..Len(fn.feats) :
        Contains(fn.feats[h], c) /\ \A g \in 1..(h - 1) : ~Contains(fn.feats[g], c)

\* a cell's code is changed only from 0, and only once
ChangedOnce ==
    BuildRunning => \A c \in Cells : fn.prev[c] # 0 => fn.code[c] = fn.prev[c]

\* every cell has one code, 0 or a code that has been given to a country
CodesAllocated ==
    BuildRunning => \A c \in Cells : fn.code[c] \in 0..Len(fn.lookup)

\* C25: during the build of the mask a cell's code changes at most once, from 0
\* to the code of the first feature in source order whose polygon contains the
\* cell centre, and is never overwritten by a later feature; every cell ends
\* with one code, 0 or one that has been allocated
C25_FirstMatchWins ==
    /\ ChangedOnce
    /\ CodesAllocated
    /\ BuildRunning =>
           \A c \in Cells :
               fn.code[c] # 0 =>
                   fn.lookup[fn.code[c]] = fn.feats[FirstContaining(c)].iso2


-----------------------------------------------------------------------------
(* C26: the download cache *)

\* the request has opened local files for the keys it stacked
Fetched == last.op = "threshold_map" /\ last.looped

\* C26: the download cache is kept by storage key: the local file a request has
\* opened for a storage key holds the bytes of the object of that key, so two
\* keys never share a local file
C26_CacheKeyedByStorageKey ==
    Fetched =>
        \A i \in 1..Len(last.stacked) :
            dlCache[LocalOf[last.stacked[i]]] = last.stacked[i]


-----------------------------------------------------------------------------
(* Requests served side by side: the server's workers share the cache
   directory, and no function of the service takes a lock *)

\* the keys of the threshold maps requested side by side
ConcPaths == {ThrPath("ensemble2015", Ssp245, q) : q \in Quantiles}

\* the catalog has been written once before the workers start
InitConc ==
    /\ storage = Archive
    /\ indexFile = [exists |-> TRUE, files |-> IndexItems(Archive, << >>),
                    count |-> Len(IndexItems(Archive, << >>))]
    /\ dlCache = [b \in LocalNames |-> NoFile]
    /\ maskFile = NoMask
    /\ geojsonFile = NoGeojson
    /\ thrFiles = [t \in ThrPaths |-> NoThr]
    /\ last = [op |-> "log", built |-> {}]
    /\ fn = NoRequest
    /\ writer = Idle
    /\ reqs = NoReqs

\* build_threshold_map, lines 125-135: the request is taken, the catalog is
\* read and the candidates are chosen; nothing is checked or held before the
\* members are loaded
ThrStart(r, scenario, q, basis) ==
    /\ reqs[r] = Idle
    /\ reqs' = [reqs EXCEPT ![r] =
                   IF ~indexFile.exists \/ basis # "ensemble2015"
                   THEN [pc |-> "answered", op |-> "threshold_map",
                         path |-> ThrPath(basis, scenario, q), status |-> "error"]
                   ELSE [pc |-> "constructing", op |-> "threshold_map",
                         path |-> ThrPath(basis, scenario, q), q |-> q,
                         cands |-> ThrCandidates(indexFile.files, scenario)]]
    /\ UNCHANGED <<storage, indexFile, dlCache, maskFile, geojsonFile, thrFiles, last, fn, writer>>

\* lines 137-178: the members are loaded and stacked, the dataset is computed
ThrCompute(r) ==
    /\ reqs[r].pc = "constructing"
    /\ reqs[r].op = "threshold_map"
    /\ \E acc \in {ThrLoop(reqs[r].cands, 1, NoMembers(dlCache))} :
          /\ dlCache' = acc.cache
          /\ reqs' = [reqs EXCEPT ![r] =
                         IF acc.fields = << >>
                         THEN [pc |-> "answered", op |-> "threshold_map",
                               path |-> reqs[r].path, status |-> "error"]
                         ELSE [pc |-> "built", op |-> "threshold_map",
                               path |-> reqs[r].path,
                               ds |-> ThrDataset(acc.fields, reqs[r].q)]]
    /\ UNCHANGED <<storage, indexFile, maskFile, geojsonFile, thrFiles, last, fn, writer>>

\* lines 179-180: if os.path.exists(out_path): os.remove(out_path)
ThrRemove(r) ==
    /\ reqs[r].pc = "built"
    /\ reqs[r].op = "threshold_map"
    /\ thrFiles' = [thrFiles EXCEPT ![reqs[r].path] = NoThr]
    /\ reqs' = [reqs EXCEPT ![r].pc = "removed"]
    /\ UNCHANGED <<storage, indexFile, dlCache, maskFile, geojsonFile, last, fn, writer>>

\* line 181: ds_out.to_netcdf(out_path); the summary is returned
ThrWrite(r) ==
    /\ reqs[r].pc = "removed"
    /\ reqs[r].op = "threshold_map"
    /\ thrFiles' = [thrFiles EXCEPT ![reqs[r].path] = reqs[r].ds]
    /\ last' = [last EXCEPT !.built = @ \cup {reqs[r].path}]
    /\ reqs' = [reqs EXCEPT ![r] = [pc |-> "answered", op |-> "threshold_map",
                                    path |-> reqs[r].path, status |-> "ok"]]
    /\ UNCHANGED <<storage, indexFile, dlCache, maskFile, geojsonFile, fn, writer>>

\* ensure_country_mask, lines 164-178: the mask on disk is reported, or the
\* request goes on to build one
EnsureStart(r, src, overwrite) ==
    /\ reqs[r] = Idle
    /\ reqs' = [reqs EXCEPT ![r] =
                   IF MaskReused(overwrite)
                   THEN [pc |-> "answered", op |-> "ensure_mask", created |-> FALSE,
                         n_countries |-> Len(maskFile.lookup)]
                   ELSE [pc |-> "constructing", op |-> "ensure_mask", src |-> src]]
    /\ UNCHANGED <<storage, indexFile, dlCache, maskFile, geojsonFile, thrFiles, last, fn, writer>>

\* lines 180-189: the polygons are fetched if no file is there, and rasterized
EnsureCompute(r) ==
    /\ reqs[r].pc = "constructing"
    /\ reqs[r].op = "ensure_mask"
    /\ \E content \in {DownloadIfNeeded(reqs[r].src)} :
          /\ geojsonFile' = content
          /\ reqs' = [reqs EXCEPT ![r] = [pc |-> "built", op |-> "ensure_mask",
                                          ds |-> BuildMaskFromGeojson(content)]]
    /\ UNCHANGED <<storage, indexFile, dlCache, maskFile, thrFiles, last, fn, writer>>

\* lines 191-192: if os.path.exists(mask_path): os.remove(mask_path)
EnsureRemove(r) ==
    /\ reqs[r].pc = "built"
    /\ reqs[r].op = "ensure_mask"
    /\ maskFile' = NoMask
    /\ reqs' = [reqs EXCEPT ![r].pc = "removed"]
    /\ UNCHANGED <<storage, indexFile, dlCache, geojsonFile, thrFiles, last, fn, writer>>

\* line 193: ds_mask.to_netcdf(mask_path); the metadata are returned
EnsureWrite(r) ==
    /\ reqs[r].pc = "removed"
    /\ reqs[r].op = "ensure_mask"
    /\ maskFile' = reqs[r].ds
    /\ reqs' = [reqs EXCEPT ![r] = [pc |-> "answered", op |-> "ensure_mask",
                                    created |-> TRUE,
                                    n_countries |-> Len(reqs[r].ds.lookup)]]
    /\ UNCHANGED <<storage, indexFile, dlCache, geojsonFile, thrFiles, last, fn, writer>>

\* compute_region_shock, lines 163-168: the request has its projected value
\* and looks for the reference map; known says that a build of this key had
\* returned before
ShockCheck(r, scenario, q, basis) ==
    /\ reqs[r] = Idle
    /\ \E path \in {ThrPath(basis, scenario, q)} :
          reqs' = [reqs EXCEPT ![r] =
                      IF thrFiles[path].exists
                      THEN [pc |-> "checked", op |-> "shock", path |-> path,
                            known |-> path \in last.built]
                      ELSE [pc |-> "answered", op |-> "shock", path |-> path,
                            known |-> path \in last.built, status |-> "error",
                            cond |-> "MissingReferenceMap"]]
    /\ UNCHANGED <<storage, indexFile, dlCache, maskFile, geojsonFile, thrFiles, last, fn, writer>>

\* lines 170-178: xr.open_dataset(thr_path) and the two country means
ShockOpen(r) ==
    /\ reqs[r].pc = "checked"
    /\ reqs' = [reqs EXCEPT ![r] =
                   IF thrFiles[reqs[r].path].exists
                   THEN [pc |-> "answered", op |-> "shock", path |-> reqs[r].path,
                         known |-> reqs[r].known, status |-> "ok", cond |-> ""]
                   ELSE [pc |-> "answered", op |-> "shock", path |-> reqs[r].path,
                         known |-> reqs[r].known, status |-> "error",
                         cond |-> "OpenFailed"]]
    /\ UNCHANGED <<storage, indexFile, dlCache, maskFile, geojsonFile, thrFiles, last, fn, writer>>

\* the response is sent and the worker takes the next request
Return(r) ==
    /\ reqs[r].pc = "answered"
    /\ reqs' = [reqs EXCEPT ![r] = Idle]
    /\ UNCHANGED <<storage, indexFile, dlCache, maskFile, geojsonFile, thrFiles, last, fn, writer>>

NextConc ==
    \/ \E r \in ReqIds, q \in Quantiles : ThrStart(r, Ssp245, q, "ensemble2015")
    \/ \E r \in ReqIds : ThrCompute(r)
    \/ \E r \in ReqIds : ThrRemove(r)
    \/ \E r \in ReqIds : ThrWrite(r)
    \/ \E r \in ReqIds, src \in Sources, overwrite \in BOOLEAN :
          EnsureStart(r, src, overwrite)
    \/ \E r \in ReqIds : EnsureCompute(r)
    \/ \E r \in ReqIds : EnsureRemove(r)
    \/ \E r \in ReqIds : EnsureWrite(r)
    \/ \E r \in ReqIds, q \in Quantiles : ShockCheck(r, Ssp245, q, "ensemble2015")
    \/ \E r \in ReqIds : ShockOpen(r)
    \/ \E r \in ReqIds : Return(r)

SpecConc == InitConc /\ [][NextConc]_vars


-----------------------------------------------------------------------------
(* C27: nothing protects the construction of an artifact: a worker that takes
   a threshold map request goes into construction whatever the other worker
   is doing, and so does a worker that takes an ensure request while no mask
   is on disk; both workers can be constructing the same artifact at once *)

Constructing(r, op) == reqs[r].pc \in {"constructing", "built", "removed"} /\ reqs[r].op = op

Takes(r, op) == reqs[r] = Idle /\ reqs'[r] # Idle /\ reqs'[r].op = op

C27_NoSingleWriter ==
    [][\A r \in ReqIds :
          /\ Takes(r, "threshold_map") /\ indexFile.exists
                => Constructing(r, "threshold_map")'
          /\ Takes(r, "ensure_mask") /\ ~maskFile.exists
                => Constructing(r, "ensure_mask")']_vars

\* both workers are constructing the threshold map of one key
C27_Reached ==
    /\ Constructing(1, "threshold_map")
    /\ Constructing(2, "threshold_map")
    /\ reqs[1].path = reqs[2].path

\* both workers are constructing the mask, none being on disk
BothBuildMask ==
    /\ Constructing(1, "ensure_mask")
    /\ Constructing(2, "ensure_mask")
    /\ ~maskFile.exists

-----------------------------------------------------------------------------
(* C28: a shock request that looks for the reference map of a key after a
   build of that key has returned finds it, also while the map is being
   rebuilt *)

Looked(r) == reqs[r].pc = "answered" /\ reqs[r].op = "shock" /\ reqs[r].known

C28_ReferenceMapNeverAbsent ==
    \A r \in ReqIds : Looked(r) => reqs[r].status = "ok"

\* the map was absent at the check although a build had returned
MissedKnownMap ==
    \E r \in ReqIds : Looked(r) /\ reqs[r].cond = "MissingReferenceMap"


-----------------------------------------------------------------------------
(* C29: a shock request whose window has y0 > y1 returns no value: once the
   mask and the catalog are there, it ends with no candidate files or with
   every candidate member dropped and no usable member left *)

Backwards == last.op = "shock" /\ last.y0 > last.y1

C29_BackwardWindowFails ==
    Backwards =>
        /\ last.status = "error"
        /\ last.stacked = << >>
        /\ last.cond \in {"MaskNotFound", "IndexNotFound", "NoFiles", "NoUsableData"}
        /\ last.looped => /\ last.cond = "NoUsableData"
                          /\ Len(last.errors) = Len(last.cands)

\* a backward window with a candidate member, which is dropped
C29_Reached ==
    /\ Backwards
    /\ last.looped
    /\ \E i \in 1..Len(last.errors) :
          last.errors[i].error = "no samples in requested window"


-----------------------------------------------------------------------------
(* C30: the mask written by an ensure call that builds is rasterized from the
   polygons of the source named in that call *)

Built == last.op = "ensure_mask" /\ last.created

C30_MaskFromNamedSource ==
    Built => maskFile = BuildMaskFromGeojson(last.src)

\* a building call that named one source and rasterized the file of another
BuiltFromEarlierFile ==
    /\ Built
    /\ last.overwrite
    /\ geojsonFile # last.src
    /\ maskFile = BuildMaskFromGeojson(geojsonFile)
    /\ maskFile # BuildMaskFromGeojson(last.src)

=============================================================================
